---- MODULE Spec2Model ----
(***************************************************************************)
(* Model of the AI sequence generation API.                                *)
(*                                                                         *)
(*   - the Role-Context Strategy Engine (src/src/utils/roleContextStrategy.ts) *)
(*   - the generation pipeline of generateSequenceWithAI, prompt version   *)
(*     v5.2 (src/src/services/aiService.ts, lines 958-1627; the text above *)
(*     line 957 of that file is the superseded v1.2 pipeline, which the    *)
(*     five-argument call in sequenceService.ts does not reach).           *)
(*                                                                         *)
(* Strings are TLA+ strings; substring search, lower-casing and word       *)
(* splitting are computed character by character.                          *)
(***************************************************************************)
EXTENDS Integers, Sequences, FiniteSets, TLC

VARIABLES
    companyContext,   \* company_context of the request
    enrichedRole,     \* profile.roleCategory returned by the enrichment provider
    strategy,         \* last MessageStrategy returned by computeMessageStrategy
    prevStrategy,     \* the MessageStrategy returned by the call before that
    prevRole,         \* the enrichedRole that call was given
    openaiClient,     \* whether the module-level OpenAI client was constructed
    prospectData,     \* the enriched profile handed to generateSequenceWithAI
    sequenceLength,   \* sequence_length of the request
    pc,               \* position of generateSequenceWithAI
    stepProgression,  \* the step lines buildStepProgression put in the system prompt
    frictionBlock,    \* the lines strategyToPromptBlock put in the user prompt
    content,          \* response.choices[0]?.message?.content
    parsed,           \* the value parseAIJsonContent returned, mutated in place
    issues,           \* what validateContentQuality returned
    error,            \* code of the AppError the call threw
    result,           \* the AIGenerationResult the call returned
    requests,         \* the calls of generateSequenceService in progress
    db                \* the rows of the database tables

strategyVars == <<companyContext, enrichedRole, strategy, prevStrategy, prevRole>>

generationVars ==
    <<openaiClient, prospectData, sequenceLength, pc, stepProgression, frictionBlock,
      content, parsed, issues, error, result>>

serviceVars == <<requests, db>>

vars == <<strategyVars, generationVars, serviceVars>>

----------------------------------------------------------------------------
(* String helpers: the JavaScript string primitives the code relies on.    *)

UpperToLower ==
    [c \in {"A","B","C","D","E","F","G","H","I","J","K","L","M",
            "N","O","P","Q","R","S","T","U","V","W","X","Y","Z"} |->
        CASE c = "A" -> "a" [] c = "B" -> "b" [] c = "C" -> "c" [] c = "D" -> "d"
          [] c = "E" -> "e" [] c = "F" -> "f" [] c = "G" -> "g" [] c = "H" -> "h"
          [] c = "I" -> "i" [] c = "J" -> "j" [] c = "K" -> "k" [] c = "L" -> "l"
          [] c = "M" -> "m" [] c = "N" -> "n" [] c = "O" -> "o" [] c = "P" -> "p"
          [] c = "Q" -> "q" [] c = "R" -> "r" [] c = "S" -> "s" [] c = "T" -> "t"
          [] c = "U" -> "u" [] c = "V" -> "v" [] c = "W" -> "w" [] c = "X" -> "x"
          [] c = "Y" -> "y" [] c = "Z" -> "z"]

\* String.prototype.toLowerCase: a text without capitals is returned as it
\* is, any other is halved and its capitals are mapped one by one
RECURSIVE toLowerCase(_)
toLowerCase(s) ==
    IF \A i \in 1..Len(s) : SubSeq(s, i, i) \notin DOMAIN UpperToLower THEN s
    ELSE IF Len(s) = 1 THEN UpperToLower[s]
    ELSE LET half == Len(s) \div 2
         IN  toLowerCase(SubSeq(s, 1, half)) \o toLowerCase(SubSeq(s, half + 1, Len(s)))

\* String.prototype.includes
includes(s, kw) ==
    \E i \in 1..(Len(s) - Len(kw) + 1) : SubSeq(s, i, i + Len(kw) - 1) = kw

\* Array.prototype.some over a keyword list
someIncluded(s, keywords) ==
    \E k \in DOMAIN keywords : includes(s, keywords[k])

----------------------------------------------------------------------------
(* Role-Context Strategy Engine: static tables.                            *)

RoleCategory == {"Engineering", "DevOps", "Security", "Data", "Product", "Sales"}

CONTEXT_ROLE_SIGNALS == <<
    [keywords |-> <<"sales team", "outbound", "pipeline", "prospecting", "sdr", "bdr",
                    "quota", "revenue team">>, role |-> "Sales", weight |-> 3],
    [keywords |-> <<"crm", "cold outreach", "sales cycle", "close rate">>,
                    role |-> "Sales", weight |-> 2],
    [keywords |-> <<"security review", "security questionnaire", "compliance review",
                    "vendor review", "security assessment">>, role |-> "Security", weight |-> 3],
    [keywords |-> <<"compliance", "risk assessment", "audit">>,
                    role |-> "Security", weight |-> 2],
    [keywords |-> <<"data team", "data pull", "analytics request", "data feasibility",
                    "enrichment request">>, role |-> "Data", weight |-> 3],
    [keywords |-> <<"reporting", "bi team", "data validation">>,
                    role |-> "Data", weight |-> 2],
    [keywords |-> <<"infrastructure", "demo environment", "infra feasibility",
                    "environment request", "devops">>, role |-> "DevOps", weight |-> 3],
    [keywords |-> <<"deployment", "ci/cd", "platform team", "sre">>,
                    role |-> "DevOps", weight |-> 2],
    [keywords |-> <<"product team", "roadmap", "feature request", "prioritization",
                    "product scope">>, role |-> "Product", weight |-> 3],
    [keywords |-> <<"backlog", "product-market", "user research">>,
                    role |-> "Product", weight |-> 2],
    [keywords |-> <<"engineering team", "technical validation", "engineering escalation",
                    "architect">>, role |-> "Engineering", weight |-> 3],
    [keywords |-> <<"backend", "frontend", "sprint planning", "engineering bandwidth">>,
                    role |-> "Engineering", weight |-> 2] >>

CONTEXT_CAPABILITY_MAP == <<
    [keywords |-> <<"qualify", "qualification", "icp", "fit", "qualified">>,
        tag |-> "qualification"],
    [keywords |-> <<"filter", "filtering", "gate", "screen", "fewer">>,
        tag |-> "filtering"],
    [keywords |-> <<"enrich", "enrichment", "research", "prospect data">>,
        tag |-> "enrichment"],
    [keywords |-> <<"personalize", "personalization", "tailor", "custom message">>,
        tag |-> "personalization"],
    [keywords |-> <<"security review", "security questionnaire", "compliance review">>,
        tag |-> "security-review-reduction"],
    [keywords |-> <<"pipeline", "outbound", "sequence", "automate sales">>,
        tag |-> "pipeline-automation"],
    [keywords |-> <<"handoff", "escalation", "routing", "hand-off">>,
        tag |-> "handoff-optimization"],
    [keywords |-> <<"triage", "inbound", "sort", "prioritize inbound">>,
        tag |-> "triage-automation"],
    [keywords |-> <<"demo", "trial", "poc", "proof of concept">>,
        tag |-> "demo-qualification"],
    [keywords |-> <<"target", "targeting", "precision", "icp match">>,
        tag |-> "targeting-precision"],
    [keywords |-> <<"reduce escalation", "fewer escalation", "escalation volume">>,
        tag |-> "escalation-reduction"] >>

ROLE_ALLOWED_WORKFLOWS ==
    [r \in RoleCategory |->
        CASE r = "Engineering" -> <<"unqualified-escalations", "founder-interrupts",
                                    "pre-sales-feasibility", "architecture-discussions">>
          [] r = "DevOps"      -> <<"demo-environment-requests", "pre-sales-feasibility",
                                    "founder-interrupts", "architecture-discussions">>
          [] r = "Security"    -> <<"security-questionnaires", "compliance-checks",
                                    "pre-sales-feasibility", "unqualified-escalations">>
          [] r = "Data"        -> <<"ad-hoc-data-requests", "pre-sales-feasibility",
                                    "manual-enrichment", "unqualified-escalations">>
          [] r = "Product"     -> <<"roadmap-disruption", "feature-request-noise",
                                    "pre-sales-feasibility", "qualification-cycles">>
          [] r = "Sales"       -> <<"low-fit-leads", "manual-enrichment",
                                    "qualification-cycles", "personalization-at-scale">>]

CapabilityTag ==
    {"qualification", "filtering", "enrichment", "personalization",
     "security-review-reduction", "pipeline-automation", "handoff-optimization",
     "triage-automation", "demo-qualification", "targeting-precision",
     "escalation-reduction"}

bridgeCoveringRoadmap ==
    [t \in CapabilityTag |->
        <<"roadmap-disruption", "feature-request-noise", "pre-sales-feasibility",
          "qualification-cycles">>]

CAPABILITY_WORKFLOW_BRIDGE ==
    [t \in CapabilityTag |->
        CASE t = "qualification" ->
                <<"unqualified-escalations", "pre-sales-feasibility", "security-questionnaires",
                  "low-fit-leads", "qualification-cycles", "compliance-checks",
                  "architecture-discussions", "demo-environment-requests">>
          [] t = "filtering" ->
                <<"unqualified-escalations", "ad-hoc-data-requests", "feature-request-noise",
                  "security-questionnaires", "compliance-checks", "low-fit-leads">>
          [] t = "enrichment" ->
                <<"manual-enrichment", "ad-hoc-data-requests", "personalization-at-scale">>
          [] t = "personalization" ->
                <<"personalization-at-scale", "manual-enrichment">>
          [] t = "security-review-reduction" ->
                <<"security-questionnaires", "compliance-checks">>
          [] t = "pipeline-automation" ->
                <<"low-fit-leads", "qualification-cycles", "personalization-at-scale",
                  "manual-enrichment">>
          [] t = "handoff-optimization" ->
                <<"unqualified-escalations", "founder-interrupts", "pre-sales-feasibility">>
          [] t = "triage-automation" ->
                <<"unqualified-escalations", "ad-hoc-data-requests", "low-fit-leads",
                  "feature-request-noise">>
          [] t = "demo-qualification" ->
                <<"demo-environment-requests", "pre-sales-feasibility">>
          [] t = "targeting-precision" ->
                <<"low-fit-leads", "qualification-cycles", "unqualified-escalations">>
          [] t = "escalation-reduction" ->
                <<"unqualified-escalations", "founder-interrupts",
                  "architecture-discussions">>]

\* the elements of an array, as a set
Range(seq) == {seq[i] : i \in DOMAIN seq}

----------------------------------------------------------------------------
(* Context -> Role inference.                                              *)

\* scores[role] = (scores[role] || 0) + weight; scores is a JavaScript object,
\* modelled as the sequence of its entries in insertion order.
addScore(scores, role, weight) ==
    IF \E i \in DOMAIN scores : scores[i].role = role
    THEN [i \in DOMAIN scores |->
            IF scores[i].role = role
            THEN [role |-> role, score |-> scores[i].score + weight]
            ELSE scores[i]]
    ELSE Append(scores, [role |-> role, score |-> weight])

scoreKeywordsOncePerRule(ctx, signal, k, scores) ==
    IF someIncluded(ctx, signal.keywords)
    THEN addScore(scores, signal.role, signal.weight)
    ELSE scores

\* the inner loop: for (const kw of signal.keywords)
RECURSIVE scoreKeywords(_, _, _, _)
scoreKeywords(ctx, signal, k, scores) ==
    IF k > Len(signal.keywords) THEN scores
    ELSE scoreKeywords(ctx, signal, k + 1,
            IF includes(ctx, signal.keywords[k])
            THEN addScore(scores, signal.role, signal.weight)
            ELSE scores)

\* the outer loop: for (const signal of CONTEXT_ROLE_SIGNALS)
RECURSIVE scoreSignals(_, _, _)
scoreSignals(ctx, s, scores) ==
    IF s > Len(CONTEXT_ROLE_SIGNALS) THEN scores
    ELSE scoreSignals(ctx, s + 1, scoreKeywords(ctx, CONTEXT_ROLE_SIGNALS[s], 1, scores))

\* for (const [role, score] of Object.entries(scores)) if (score > bestScore) ...
RECURSIVE pickBest(_, _, _)
pickBest(scores, i, best) ==
    IF i > Len(scores) THEN best
    ELSE pickBest(scores, i + 1,
            IF scores[i].score > best.score THEN scores[i] ELSE best)

\* a slip in the last resort: the heuristic ends in Sales
fallbackRoleSalesDefault(ctx) ==
    IF includes(ctx, "sales") \/ includes(ctx, "automate") THEN "Sales"
    ELSE IF includes(ctx, "security") THEN "Security"
    ELSE "Sales"

\* the heuristic applied when no keyword matched at all (bestScore === 0)
fallbackRole(ctx) ==
    IF includes(ctx, "sales") \/ includes(ctx, "automate") THEN "Sales"
    ELSE IF includes(ctx, "security") THEN "Security"
    ELSE "Engineering"

inferTargetRoleFromContext(context) ==
    LET ctx    == toLowerCase(context)
        scores == scoreSignals(ctx, 1, <<>>)
        best   == pickBest(scores, 1, [role |-> "Engineering", score |-> 0])
    IN  IF best.score = 0 THEN fallbackRole(ctx) ELSE best.role

----------------------------------------------------------------------------
(* Context -> Capability tags.                                             *)

\* for (const mapping of CONTEXT_CAPABILITY_MAP): the first matching keyword adds
\* the tag; tags is a Set, returned as an array in insertion order.
RECURSIVE matchCapabilities(_, _, _)
matchCapabilities(ctx, m, tags) ==
    IF m > Len(CONTEXT_CAPABILITY_MAP) THEN tags
    ELSE matchCapabilities(ctx, m + 1,
            IF someIncluded(ctx, CONTEXT_CAPABILITY_MAP[m].keywords)
               /\ CONTEXT_CAPABILITY_MAP[m].tag \notin Range(tags)
            THEN Append(tags, CONTEXT_CAPABILITY_MAP[m].tag)
            ELSE tags)

\* the fallback without its last resort: no minimum tag is added
fallbackCapabilitiesNoMinimum(ctx) ==
    LET t1 == IF includes(ctx, "automate") \/ includes(ctx, "automation")
              THEN <<"pipeline-automation">> ELSE <<>>
    IN  IF includes(ctx, "sales") THEN Append(t1, "qualification") ELSE t1

\* the broad-signal fallback taken when no mapping matched
fallbackCapabilities(ctx) ==
    LET t1 == IF includes(ctx, "automate") \/ includes(ctx, "automation")
              THEN <<"pipeline-automation">> ELSE <<>>
        t2 == IF includes(ctx, "sales") THEN Append(t1, "qualification") ELSE t1
    IN  IF Len(t2) = 0 THEN <<"qualification">> ELSE t2

extractCapabilityTags(context) ==
    LET ctx  == toLowerCase(context)
        tags == matchCapabilities(ctx, 1, <<>>)
    IN  IF Len(tags) = 0 THEN fallbackCapabilities(ctx) ELSE tags

----------------------------------------------------------------------------
(* Intersection + alignment.                                               *)

\* the intersection forgotten: every workflow the capabilities address is returned
intersectWorkflowsUnfiltered(capabilityTags, roleWorkflows) ==
    LET capabilityWorkflows ==
            UNION {Range(CAPABILITY_WORKFLOW_BRIDGE[capabilityTags[i]]) :
                        i \in DOMAIN capabilityTags}
        all == ROLE_ALLOWED_WORKFLOWS["Engineering"] \o ROLE_ALLOWED_WORKFLOWS["DevOps"]
                \o ROLE_ALLOWED_WORKFLOWS["Security"] \o ROLE_ALLOWED_WORKFLOWS["Data"]
                \o ROLE_ALLOWED_WORKFLOWS["Product"] \o ROLE_ALLOWED_WORKFLOWS["Sales"]
    IN  SelectSeq(all, LAMBDA wf : wf \in capabilityWorkflows)

intersectWorkflowsReversed(capabilityTags, roleWorkflows) ==
    LET capabilityWorkflows ==
            UNION {Range(CAPABILITY_WORKFLOW_BRIDGE[capabilityTags[i]]) :
                        i \in DOMAIN capabilityTags}
        kept == SelectSeq(roleWorkflows, LAMBDA wf : wf \in capabilityWorkflows)
    IN  [i \in 1..Len(kept) |-> kept[Len(kept) + 1 - i]]

intersectWorkflows(capabilityTags, roleWorkflows) ==
    LET capabilityWorkflows ==
            UNION {Range(CAPABILITY_WORKFLOW_BRIDGE[capabilityTags[i]]) :
                        i \in DOMAIN capabilityTags}
    IN  SelectSeq(roleWorkflows, LAMBDA wf : wf \in capabilityWorkflows)

\* Math.round(x) for x = num / den >= 0: the nearest integer, halves rounded up
roundDiv(num, den) == (2 * num + den) \div (2 * den)

\* score is kept in hundredths: the code returns Math.round(score * 100) / 100,
\* so alignmentScore 1.0 is 100 here and 0.75 is 75.
\* the ratio truncated to an integer before scaling: 3 of 4 scores 0
computeAlignmentScoreTruncated(activeWorkflows, roleWorkflows) ==
    IF Len(roleWorkflows) = 0
    THEN [score |-> 0, note |-> "No allowed workflows defined for role"]
    ELSE [score |-> 100 * (Len(activeWorkflows) \div Len(roleWorkflows)),
          note  |-> "Strong alignment - company capabilities directly address most role frictions"]

computeAlignmentScore(activeWorkflows, roleWorkflows) ==
    IF Len(roleWorkflows) = 0
    THEN [score |-> 0, note |-> "No allowed workflows defined for role"]
    ELSE LET a == Len(activeWorkflows)
             b == Len(roleWorkflows)
             note ==
                IF 4 * a >= 3 * b
                THEN "Strong alignment - company capabilities directly address most role frictions"
                ELSE IF 2 * a >= b
                THEN "Moderate alignment - some role frictions are addressable"
                ELSE IF a > 0
                THEN "Low contextual alignment between prospect role and company_context"
                ELSE "No overlap - company capabilities do not address any frictions for this role"
         IN  [score |-> roundDiv(100 * a, b), note |-> note]

\* the enriched role taking precedence over the context-derived one
resolveTargetPersonaEnriched(contextRole, role) == role

\* "context takes precedence over slug inference": const targetPersona = contextRole
resolveTargetPersona(contextRole, role) == contextRole

computeMessageStrategy(context, role) ==
    LET contextRole      == inferTargetRoleFromContext(context)
        targetPersona    == resolveTargetPersona(contextRole, role)
        capabilityTags   == extractCapabilityTags(context)
        allowedWorkflows == ROLE_ALLOWED_WORKFLOWS[targetPersona]
        activeWorkflows  == intersectWorkflows(capabilityTags, allowedWorkflows)
        sn               == computeAlignmentScore(activeWorkflows, allowedWorkflows)
        personaShifted   == role # targetPersona
        fullNote ==
            IF personaShifted
            THEN "Persona shift: prospect is " \o role \o ", targeting " \o targetPersona
                    \o " frictions (context-driven). " \o sn.note
            ELSE "Persona confirmed: " \o targetPersona \o ". " \o sn.note
    IN  [targetPersona    |-> targetPersona,
         capabilityTags   |-> capabilityTags,
         allowedWorkflows |-> allowedWorkflows,
         activeWorkflows  |-> activeWorkflows,
         alignmentScore   |-> sn.score,
         alignmentNote    |-> fullNote]

----------------------------------------------------------------------------
(* Prompt serialization of the strategy.                                   *)

WORKFLOW_DESCRIPTIONS ==
    "unqualified-escalations" :> "unqualified prospects escalated to technical teams"
    @@ "ad-hoc-data-requests" :> "ad-hoc data pulls for prospects that go nowhere"
    @@ "pre-sales-feasibility" :>
            "\"can we support this?\" feasibility checks for unqualified deals"
    @@ "security-questionnaires" :>
            "security questionnaires filled for prospects who never buy"
    @@ "demo-environment-requests" :>
            "demo environments spun up for prospects who never close"
    @@ "roadmap-disruption" :>
            "roadmap disrupted by unqualified prospect feature requests"
    @@ "founder-interrupts" :>
            "founders pulling team into unqualified prospect conversations"
    @@ "manual-enrichment" :> "manual hours spent researching prospects"
    @@ "low-fit-leads" :> "time wasted on prospects who don't match ICP"
    @@ "qualification-cycles" :> "slow back-and-forth to determine prospect fit"
    @@ "personalization-at-scale" :>
            "individual messages written without structured prospect intelligence"
    @@ "feature-request-noise" :>
            "cross-functional noise from prospect-driven feature requests"
    @@ "compliance-checks" :> "compliance checks triggered by low-fit prospects"
    @@ "architecture-discussions" :>
            "architecture discussions triggered by unqualified prospects"

\* `- ${WORKFLOW_DESCRIPTIONS[wf]}` for every workflow of the list
frictionLines(workflows) ==
    [i \in DOMAIN workflows |-> "- " \o WORKFLOW_DESCRIPTIONS[workflows[i]]]

\* strategyToPromptBlock(strategy): the lines of the block
strategyToPromptBlock(s) ==
    IF Len(s.activeWorkflows) = 0
    THEN << "PERSONA FRICTIONS (" \o s.targetPersona
                \o ") - pick the ONE most relevant to company_context:" >>
            \o frictionLines(s.allowedWorkflows)
            \o << "Their skills are CONTEXT for personalization. The friction is what our product solves." >>
    ELSE << "TARGETED FRICTIONS (" \o s.targetPersona
                \o ", derived from company_context alignment):" >>
            \o frictionLines(s.activeWorkflows)
            \o << "These frictions are causally validated: the company's capabilities directly address them for this persona.",
                   "Pick the ONE most relevant. Build ALL messages around it as a progressive narrative.",
                   "Their skills are CONTEXT for personalization. The friction is what our product solves." >>

----------------------------------------------------------------------------
(* JavaScript values as the model call can return them. A value carries    *)
(* its type tag t; numbers are held in thousandths.                        *)

Undefined == [t |-> "undefined"]
Null == [t |-> "null"]
Str(s) == [t |-> "string", v |-> s]
Num(thousandths) == [t |-> "number", v |-> thousandths]
Arr(items) == [t |-> "array", v |-> items]

\* the typeof operator
typeof(x) ==
    CASE x.t = "undefined" -> "undefined"
      [] x.t = "string" -> "string"
      [] x.t = "number" -> "number"
      [] OTHER -> "object"

\* ToBoolean, as applied by !x and x || y
truthy(x) ==
    CASE x.t \in {"undefined", "null"} -> FALSE
      [] x.t = "string" -> x.v # ""
      [] x.t = "number" -> x.v # 0
      [] OTHER -> TRUE

\* property read x.name on a value that is not null or undefined
prop(x, name) ==
    IF x.t = "object" /\ name \in DOMAIN x THEN x[name] ELSE Undefined

\* Array.isArray
isArray(x) == x.t = "array"

Digits == {"0", "1", "2", "3", "4", "5", "6", "7", "8", "9"}

LowerLetters == {UpperToLower[c] : c \in DOMAIN UpperToLower}

\* the characters \s matches among those the model uses
isSpace(c) == c \in {" ", "\t", "\n", "\r"}

RECURSIVE trimStart(_)
trimStart(s) ==
    IF s # "" /\ isSpace(SubSeq(s, 1, 1)) THEN trimStart(SubSeq(s, 2, Len(s))) ELSE s

RECURSIVE trimEnd(_)
trimEnd(s) ==
    IF s # "" /\ isSpace(SubSeq(s, Len(s), Len(s)))
    THEN trimEnd(SubSeq(s, 1, Len(s) - 1)) ELSE s

\* String.prototype.trim
trim(s) == trimEnd(trimStart(s))

\* whether c belongs to a separator run of the split pattern:
\* "space" is /\s+/, "alnum" is /[^a-z0-9]+/, "alpha" is /[^a-z]+/
isSeparator(c, pattern) ==
    CASE pattern = "space" -> isSpace(c)
      [] pattern = "alnum" -> c \notin (LowerLetters \cup Digits)
      [] pattern = "alpha" -> c \notin LowerLetters

\* the tokens of s between single separator characters (the text is halved
\* and the token that spans the cut is joined again)
RECURSIVE splitAtEach(_, _)
splitAtEach(s, pattern) ==
    IF s = "" THEN <<"">>
    ELSE IF Len(s) = 1 THEN (IF isSeparator(s, pattern) THEN <<"", "">> ELSE <<s>>)
    ELSE LET half == Len(s) \div 2
             left == splitAtEach(SubSeq(s, 1, half), pattern)
             right == splitAtEach(SubSeq(s, half + 1, Len(s)), pattern)
         IN  SubSeq(left, 1, Len(left) - 1)
                \o <<left[Len(left)] \o right[1]>>
                \o SubSeq(right, 2, Len(right))

\* String.prototype.split on a pattern of separator runs: inside a run no
\* empty token arises, at either end of the text one does
split(s, pattern) ==
    LET tokens == splitAtEach(s, pattern)
        nonEmpty(token) == token # ""
    IN  IF Len(tokens) <= 2 THEN tokens
        ELSE <<tokens[1]>>
                \o SelectSeq(SubSeq(tokens, 2, Len(tokens) - 1), nonEmpty)
                \o <<tokens[Len(tokens)]>>

\* String.prototype.endsWith
endsWith(s, suffix) ==
    Len(s) >= Len(suffix) /\ SubSeq(s, Len(s) - Len(suffix) + 1, Len(s)) = suffix

\* String.prototype.startsWith
startsWith(s, prefix) ==
    Len(s) >= Len(prefix) /\ SubSeq(s, 1, Len(prefix)) = prefix

\* String(n) of a number held in thousandths
numberToString(n) ==
    LET a == IF n < 0 THEN -n ELSE n
        whole == ToString(a \div 1000)
        f == a % 1000
        frac == IF f = 0 THEN ""
                ELSE IF f % 100 = 0 THEN "." \o ToString(f \div 100)
                ELSE IF f % 10 = 0
                     THEN "." \o (IF f < 100 THEN "0" ELSE "") \o ToString(f \div 10)
                ELSE "." \o (IF f < 10 THEN "00" ELSE IF f < 100 THEN "0" ELSE "")
                         \o ToString(f)
    IN  (IF n < 0 THEN "-" ELSE "") \o whole \o frac

\* String(val || ''), for arrays whose elements are not arrays
toStringOrEmpty(val) ==
    IF ~truthy(val) THEN ""
    ELSE CASE val.t = "string" -> val.v
           [] val.t = "number" -> numberToString(val.v)
           [] val.t = "array" ->
                IF Len(val.v) = 0 THEN ""
                ELSE LET joinFrom[i \in 1..Len(val.v)] ==
                            LET e == val.v[i]
                                text == IF e.t \in {"undefined", "null"} THEN ""
                                        ELSE IF e.t = "string" THEN e.v
                                        ELSE IF e.t = "number" THEN numberToString(e.v)
                                        ELSE "[object Object]"
                            IN  IF i = Len(val.v) THEN text
                                ELSE text \o "," \o joinFrom[i + 1]
                     IN  joinFrom[1]
           [] OTHER -> "[object Object]"

----------------------------------------------------------------------------
(* Enrichment: the profile fields the generation pipeline reads.           *)

SKILLS_BY_ROLE ==
    [r \in RoleCategory |->
        CASE r = "Engineering" -> <<"TypeScript", "Node.js", "System Design">>
          [] r = "DevOps" -> <<"AWS", "Kubernetes", "CI/CD">>
          [] r = "Security" ->
                <<"Application Security", "Threat Modeling", "Cloud Security">>
          [] r = "Data" -> <<"Python", "SQL", "Data Modeling">>
          [] r = "Product" ->
                <<"Roadmapping", "Stakeholder Alignment", "Prioritization">>
          [] r = "Sales" ->
                <<"Outbound Prospecting", "Pipeline Management", "CRM Optimization">>]

\* TITLES_BY_ROLE[role].Senior
SENIOR_TITLE_BY_ROLE ==
    [r \in RoleCategory |->
        CASE r = "Engineering" -> "Senior Software Engineer"
          [] r = "DevOps" -> "Senior DevOps Engineer"
          [] r = "Security" -> "Senior Security Engineer"
          [] r = "Data" -> "Senior Data Engineer"
          [] r = "Product" -> "Senior Product Manager"
          [] r = "Sales" -> "Senior Account Executive"]

FOCUS_BY_ROLE ==
    [r \in RoleCategory |->
        CASE r = "Engineering" -> "Building scalable backend platforms"
          [] r = "DevOps" -> "Improving release reliability and infrastructure"
          [] r = "Security" -> "Strengthening cloud and application security posture"
          [] r = "Data" -> "Building reliable data pipelines and analytics"
          [] r = "Product" -> "Driving product strategy and cross-functional execution"
          [] r = "Sales" -> "Driving pipeline growth and outbound revenue"]

\* MockLinkedInProvider.enrich for a slug of role category r and seniority Senior
enrich(r) ==
    [ roleCategory |-> r,
      seniority |-> "Senior",
      headline |-> SENIOR_TITLE_BY_ROLE[r] \o " | " \o FOCUS_BY_ROLE[r],
      skills |-> SKILLS_BY_ROLE[r] ]

----------------------------------------------------------------------------
(* The layer plan of the system prompt. Each layer text is the source text *)
(* up to its "Example:" sentence.                                          *)

LAYER_OBSERVATION ==
    "OBSERVATION. \"Hi [Name],\" + a grounded hypothesis about their role and the chosen friction (<60 words). Reference a skill or headline detail. Statement, not a question."

LAYER_SPOTLIGHT ==
    "WORKFLOW SPOTLIGHT. No greeting. Name a specific capability or workflow FROM THE COMPANY CONTEXT and connect it to the friction. You MUST reference what the company sells (from company_context), not just restate the friction from Step 1. Be concrete about what happens and who triggers it. Can end with one question."

LAYER_CAUSE ==
    "CAUSAL LINK. No greeting. Explain HOW the upstream problem (poor qualification, noisy pipeline) creates the friction for their team. Connect company_context to their pain."

LAYER_IMPROVEMENT ==
    "IMPROVEMENT + CTA. No greeting. Name the concrete operational change and what's different after. End with a specific, low-friction ask."

LAYER_SOCIAL_PROOF ==
    "SOCIAL PROOF. No greeting. Reference how similar teams solved this + reinforce the improvement."

LAYER_EXPANSION ==
    "EXPANSION. No greeting. Broaden the impact - name a second workflow or team that benefits from the same upstream fix. End with a specific ask."

LAYER_SINGLE ==
    "OBSERVATION + CTA. \"Hi [Name],\" + grounded hypothesis about the friction + how we help + low-friction ask. All in one concise message (<80 words)."

LAYER_FOLLOW_UP ==
    "Follow-up. No greeting. Add a new angle or reinforce the improvement with a specific ask."

\* `${i}: ${layer}`
stepLine(i, layer) == ToString(i) \o ": " \o layer

\* the for loop of buildStepProgression: i from 7 while i <= sequenceLength
followUpStepsFrom(first, n) ==
    [k \in 1..(IF n >= first THEN n - first + 1 ELSE 0) |->
        stepLine(first + k - 1, LAYER_FOLLOW_UP)]

followUpStepsFromEight(n) == followUpStepsFrom(8, n)

followUpSteps(n) == followUpStepsFrom(7, n)

singleStepAsObservation(n) == <<stepLine(1, LAYER_OBSERVATION)>>

singleStep(n) == <<stepLine(1, LAYER_SINGLE)>>

buildStepProgressionTruncated(n) ==
    IF n = 1 THEN singleStep(n)
    ELSE SubSeq(<<stepLine(1, LAYER_OBSERVATION), stepLine(2, LAYER_SPOTLIGHT),
                  stepLine(3, LAYER_CAUSE), stepLine(4, LAYER_IMPROVEMENT),
                  stepLine(5, LAYER_SOCIAL_PROOF), stepLine(6, LAYER_EXPANSION)>>,
                1, IF n < 6 THEN n ELSE 6)
         \o followUpSteps(n)

\* the steps array buildStepProgression joins under its heading line
buildStepProgression(n) ==
    IF n = 1 THEN singleStep(n)
    ELSE IF n = 2 THEN
        <<stepLine(1, LAYER_OBSERVATION), stepLine(2, LAYER_IMPROVEMENT)>>
    ELSE IF n = 3 THEN
        <<stepLine(1, LAYER_OBSERVATION), stepLine(2, LAYER_SPOTLIGHT),
          stepLine(3, LAYER_IMPROVEMENT)>>
    ELSE IF n = 4 THEN
        <<stepLine(1, LAYER_OBSERVATION), stepLine(2, LAYER_SPOTLIGHT),
          stepLine(3, LAYER_CAUSE), stepLine(4, LAYER_IMPROVEMENT)>>
    ELSE
        <<stepLine(1, LAYER_OBSERVATION), stepLine(2, LAYER_SPOTLIGHT),
          stepLine(3, LAYER_CAUSE), stepLine(4, LAYER_IMPROVEMENT),
          stepLine(5, LAYER_SOCIAL_PROOF)>>
            \o (IF n >= 6 THEN <<stepLine(6, LAYER_EXPANSION)>> ELSE <<>>)
            \o followUpSteps(n)

----------------------------------------------------------------------------
(* Parsing and structural validation of the model output.                  *)

\* The response content is held by its form and the value its JSON text
\* denotes: "json" is bare JSON text, "fencedJson" and "fenced" are JSON text
\* inside a ```json or ``` block, "fencedInvalid" is a block whose body is not
\* JSON, "text" is neither, "empty" is null or the empty string.
NoContent == [form |-> "none", value |-> Undefined]

\* parseAIJsonContent: the value, or threw when neither the text nor a fenced
\* block of it parses
parseAIJsonContent(c) ==
    IF c.form = "json" THEN [threw |-> FALSE, value |-> c.value]
    ELSE IF c.form \in {"fencedJson", "fenced"} THEN [threw |-> FALSE, value |-> c.value]
    ELSE [threw |-> TRUE, value |-> Undefined]

\* typeof x === 'string' && x.trim() is not empty
isNonBlankString(x) == typeof(x) = "string" /\ trim(x.v) # ""

keepStep(msg, index) == msg

\* msg.step = index + 1 (index counts from 0); on an array element the
\* assignment adds a property the model does not represent
normalizeStep(msg, index) ==
    IF msg.t = "object" THEN [msg EXCEPT !.step = Num((index + 1) * 1000)] ELSE msg

messageFaultIgnored(msg, index) == ""

\* the check of one element of parsed.messages: "" when it passes, otherwise
\* the text of the AppError thrown
messageFault(msg, index) ==
    IF ~truthy(msg) \/ typeof(msg) # "object"
    THEN "AI generation failed: message " \o ToString(index + 1) \o " invalid"
    ELSE IF ~isNonBlankString(prop(msg, "message"))
    THEN "AI generation failed: message " \o ToString(index + 1) \o " empty"
    ELSE IF ~isNonBlankString(prop(msg, "reasoning"))
    THEN "AI generation failed: reasoning " \o ToString(index + 1) \o " empty"
    ELSE ""

\* the for loop of validateOutputStructure over messages, from position i on:
\* every element reached and found to be an object has its step rewritten
RECURSIVE validateMessagesFrom(_, _)
validateMessagesFrom(messages, i) ==
    IF i > Len(messages) THEN [threw |-> "", messages |-> messages]
    ELSE LET msg == messages[i]
             fault == messageFault(msg, i - 1)
             reached == truthy(msg) /\ typeof(msg) = "object"
             written == IF reached
                        THEN [messages EXCEPT ![i] = normalizeStep(msg, i - 1)]
                        ELSE messages
         IN  IF fault # "" THEN [threw |-> fault, messages |-> written]
             ELSE validateMessagesFrom(written, i + 1)

\* validateOutputStructure: threw is the message of the AppError, "" when the
\* function returns; parsed is the argument as the function left it
validateOutputStructure(p, n) ==
    IF ~truthy(p) \/ typeof(p) # "object"
    THEN [threw |-> "AI generation failed", parsed |-> p]
    ELSE IF ~truthy(prop(p, "analysis")) \/ typeof(prop(p, "analysis")) # "object"
    THEN [threw |-> "AI generation failed: missing analysis", parsed |-> p]
    ELSE IF ~isArray(prop(p, "messages"))
    THEN [threw |-> "AI generation failed: missing messages", parsed |-> p]
    ELSE IF typeof(prop(p, "confidence")) # "number"
    THEN [threw |-> "AI generation failed: missing confidence", parsed |-> p]
    ELSE IF Len(p.messages.v) # n
    THEN [threw |-> "AI generation failed: message count mismatch", parsed |-> p]
    ELSE LET r == validateMessagesFrom(p.messages.v, 1)
         IN  [threw |-> r.threw, parsed |-> [p EXCEPT !.messages = Arr(r.messages)]]

----------------------------------------------------------------------------
(* Content quality guardrails: phrase lists and helpers.                   *)

HARD_DOMAIN_CLAIMS ==
    << "improve ci/cd", "improve deployment", "improve backend performance",
       "improve threat modeling", "improve security controls",
       "enhance infrastructure", "boost reliability" >>

GENERIC_FILLER_PHRASES ==
    << "would you be open to a brief chat", "would love to connect",
       "let me know if you'd be interested", "can we schedule a call",
       "happy to chat", "i've been following", "i came across your profile",
       "innovative approach", "i imagine", "i can see how",
       "cross-team collaboration", "this could help" >>

ANALYSIS_GENERIC_PHRASES ==
    << "industry-leading", "unlock new opportunities", "drive growth",
       "transform your business" >>

STOPWORDS ==
    { "and", "the", "for", "with", "that", "this", "from", "into", "your",
      "their", "about", "over", "under", "build", "building", "senior",
      "lead", "manager", "engineer", "team", "role" }

\* str(val): String(val || '').toLowerCase()
str(val) == toLowerCase(toStringOrEmpty(val))

\* hits(text, tokens)
hits(text, tokens) ==
    \E k \in DOMAIN tokens : tokens[k] # "" /\ includes(text, toLowerCase(tokens[k]))

\* /\d+%/.test(text)
hasPercentage(text) ==
    \E i \in 1..(Len(text) - 1) :
        SubSeq(text, i, i) \in Digits /\ SubSeq(text, i + 1, i + 1) = "%"

\* isSales(roleCategory)
isSalesNever(roleCategory) == FALSE

isSales(roleCategory) ==
    LET r == toLowerCase(roleCategory)
    IN  includes(r, "sales") \/ includes(r, "revenue")
            \/ includes(r, "business development")

\* first position from i on that holds no white space
RECURSIVE skipSpaces(_, _)
skipSpaces(s, i) ==
    IF i <= Len(s) /\ isSpace(SubSeq(s, i, i)) THEN skipSpaces(s, i + 1) ELSE i

\* first position from i on that [^|.;\n] does not match
RECURSIVE valueEnd(_, _)
valueEnd(s, i) ==
    IF i <= Len(s) /\ SubSeq(s, i, i) \notin {"|", ".", ";", "\n"}
    THEN valueEnd(s, i + 1) ELSE i

\* the match of /label\s*:\s*([^|.;\n]+)/i attempted at position p of s, whose
\* lower-cased text is lowered. When no value character follows the white
\* space after the colon, the group can still take white space the \s* gives
\* back, unless that is all line feeds.
labelMatchAt(s, lowered, label, p) ==
    LET q == p + Len(label)
        colon == skipSpaces(s, q)
        afterColon == colon + 1
        first == skipSpaces(s, afterColon)
    IN  IF ~( q - 1 <= Len(s)
              /\ SubSeq(lowered, p, q - 1) = label
              /\ colon <= Len(s) /\ SubSeq(s, colon, colon) = ":" )
        THEN [found |-> FALSE, value |-> ""]
        ELSE IF valueEnd(s, first) > first
        THEN [found |-> TRUE, value |-> SubSeq(s, first, valueEnd(s, first) - 1)]
        ELSE IF \E j \in afterColon..(first - 1) : SubSeq(s, j, j) # "\n"
        THEN [found |-> TRUE, value |-> " "]
        ELSE [found |-> FALSE, value |-> ""]

\* extractLabel(reasoning, label): the leftmost match, trimmed and lower-cased
extractLabel(reasoning, label) ==
    LET lowered == toLowerCase(reasoning)
        wanted == toLowerCase(label)
        at == {p \in 1..Len(reasoning) :
                    labelMatchAt(reasoning, lowered, wanted, p).found}
    IN  IF at = {} THEN ""
        ELSE LET p == CHOOSE a \in at : \A b \in at : a <= b
             IN  toLowerCase(trim(labelMatchAt(reasoning, lowered, wanted, p).value))

\* the filler set of extractContentWords
CONTENT_FILLER ==
    STOPWORDS \cup
    { "your", "team", "often", "these", "that", "they", "them",
      "which", "when", "what", "where", "many", "most", "some", "more",
      "also", "just", "like", "have", "been", "will", "would", "could",
      "should", "does", "didn", "aren", "isn", "wasn", "hasn", "don",
      "can", "not", "very", "much", "well", "even", "still", "come",
      "before", "after", "without", "leading" }

\* extractContentWords(text)
extractContentWords(text) ==
    LET tokens == split(toLowerCase(text), "alpha")
    IN  {tokens[k] : k \in {j \in DOMAIN tokens :
                                Len(tokens[j]) >= 4 /\ tokens[j] \notin CONTENT_FILLER}}

\* String(msg.message || '').trim().split(/\s+/).length
wordCount(message) == Len(split(trim(toStringOrEmpty(message)), "space"))

\* issues.push(text) when the condition holds
pushIf(condition, text) == IF condition THEN <<text>> ELSE <<>>

STEP_ONE_WORD_LIMIT == 60

stepOneLengthUnchecked(msg, i) == <<>>

\* the "Step 1 length" block of the messages loop (i counts from 0)
stepOneLength(msg, i) ==
    IF i = 0 /\ wordCount(prop(msg, "message")) > STEP_ONE_WORD_LIMIT
    THEN << "message 1 exceeds 60 words ("
                \o ToString(wordCount(prop(msg, "message"))) \o ")" >>
    ELSE <<>>

\* the body of the messages loop of validateContentQuality (i counts from 0)
messageIssues(msg, i, profile) ==
    LET text == str(prop(msg, "message"))
        reasoningLower == toLowerCase(toStringOrEmpty(prop(msg, "reasoning")))
        idx == ToString(i + 1)
        angle == extractLabel(reasoningLower, "angle")
        workflow == extractLabel(reasoningLower, "workflow")
        signal == extractLabel(reasoningLower, "signal")
    IN  stepOneLength(msg, i)
        \o pushIf(hasPercentage(text),
                  "message " \o idx \o " contains numeric percentage claim")
        \o pushIf(hits(text, GENERIC_FILLER_PHRASES),
                  "message " \o idx \o " contains generic filler")
        \o pushIf(~isSales(profile.roleCategory) /\ hits(text, HARD_DOMAIN_CLAIMS),
                  "message " \o idx \o " claims improvement to core technical system")
        \o pushIf(angle = "", "message " \o idx \o " reasoning missing Angle label")
        \o pushIf(workflow = "", "message " \o idx \o " reasoning missing Workflow label")
        \o pushIf(signal = "" \/ Len(signal) < 3,
                  "message " \o idx
                      \o " reasoning missing Signal (should mention a concrete profile element)")

\* the messages loop, from position k of the array on
RECURSIVE messagesIssuesFrom(_, _, _)
messagesIssuesFrom(messages, k, profile) ==
    IF k > Len(messages) THEN <<>>
    ELSE messageIssues(messages[k], k - 1, profile)
            \o messagesIssuesFrom(messages, k + 1, profile)

allQuestionIssuesFromOne(messages) ==
    LET questionCount ==
            Cardinality({k \in DOMAIN messages :
                endsWith(trim(toStringOrEmpty(prop(messages[k], "message"))), "?")})
    IN  pushIf(questionCount = Len(messages),
               "all messages end with questions - need progressive narrative layers")

\* the "narrative: all-question detection" block
allQuestionIssues(messages) ==
    IF Len(messages) >= 2
    THEN LET questionCount ==
                Cardinality({k \in DOMAIN messages :
                    endsWith(trim(toStringOrEmpty(prop(messages[k], "message"))), "?")})
         IN  pushIf(questionCount = Len(messages),
                    "all messages end with questions - need progressive narrative layers")
    ELSE <<>>

RECURSIVE restatementIssuesAtHalf(_, _)
restatementIssuesAtHalf(messages, i) ==
    IF i >= Len(messages) THEN <<>>
    ELSE LET prevWords == extractContentWords(str(prop(messages[i], "message")))
             currWords == extractContentWords(str(prop(messages[i + 1], "message")))
             overlap == Cardinality(currWords \cap prevWords)
             smaller == IF Cardinality(prevWords) < Cardinality(currWords)
                        THEN Cardinality(prevWords) ELSE Cardinality(currWords)
         IN  (IF prevWords # {} /\ currWords # {} /\ 2 * overlap >= smaller
              THEN << "messages " \o ToString(i) \o " and " \o ToString(i + 1)
                        \o " are too similar ("
                        \o ToString(roundDiv(100 * overlap, smaller)) \o "% overlap)" >>
              ELSE <<>>)
             \o restatementIssuesAtHalf(messages, i + 1)

\* the "restatement detection" loop, from index i (counting from 0) on
RECURSIVE restatementIssuesFrom(_, _)
restatementIssuesFrom(messages, i) ==
    IF i >= Len(messages) THEN <<>>
    ELSE LET prevWords == extractContentWords(str(prop(messages[i], "message")))
             currWords == extractContentWords(str(prop(messages[i + 1], "message")))
             overlap == Cardinality(currWords \cap prevWords)
             smaller == IF Cardinality(prevWords) < Cardinality(currWords)
                        THEN Cardinality(prevWords) ELSE Cardinality(currWords)
         IN  (IF prevWords # {} /\ currWords # {} /\ 2 * overlap > smaller
              THEN << "messages " \o ToString(i) \o " and " \o ToString(i + 1)
                        \o " are too similar ("
                        \o ToString(roundDiv(100 * overlap, smaller)) \o "% overlap)" >>
              ELSE <<>>)
             \o restatementIssuesFrom(messages, i + 1)

\* validateContentQuality(parsed, prospectData, companyContext): the issues
validateContentQuality(p, profile) ==
    LET analysis == IF truthy(prop(p, "analysis")) THEN prop(p, "analysis")
                    ELSE [t |-> "object"]
        insights == str(prop(analysis, "prospect_insights"))
        valueProp == str(prop(analysis, "value_proposition"))
        skills == [k \in DOMAIN profile.skills |-> toLowerCase(profile.skills[k])]
        hooks == IF isArray(prop(analysis, "personalization_hooks"))
                 THEN prop(analysis, "personalization_hooks").v ELSE <<>>
        messages == prop(p, "messages").v
    IN  pushIf(hasPercentage(insights) \/ hasPercentage(valueProp),
               "analysis contains numeric percentage claims")
        \o pushIf(Len(skills) > 0 /\ ~hits(insights, skills),
                  "prospect_insights should reference at least one skill")
        \o pushIf(hits(insights, ANALYSIS_GENERIC_PHRASES),
                  "prospect_insights contains generic phrasing")
        \o pushIf(Len(hooks) # 2,
                  "personalization_hooks must be exactly 2 (found "
                      \o ToString(Len(hooks)) \o ")")
        \o pushIf(~isSales(profile.roleCategory) /\ hits(valueProp, HARD_DOMAIN_CLAIMS),
                  "value_proposition claims improvement to core technical system")
        \o messagesIssuesFrom(messages, 1, profile)
        \o allQuestionIssues(messages)
        \o restatementIssuesFrom(messages, 1)

----------------------------------------------------------------------------
(* In-code text sanitization. A pattern of TEXT_REPLACEMENTS is a sequence *)
(* of elements: "lit" a literal (matched without regard to case), "opt" an *)
(* optional literal, "ws+" \s+, "ws" \s, "b" the word boundary \b.         *)

lit(s) == [k |-> "lit", s |-> s]
opt(s) == [k |-> "opt", s |-> s]
Ws == [k |-> "ws", s |-> ""]
WsPlus == [k |-> "ws+", s |-> ""]
B == [k |-> "b", s |-> ""]

TEXT_REPLACEMENTS ==
    << [pattern |-> <<B, lit("streamlining"), WsPlus>>, replacement |-> "reducing "],
       [pattern |-> <<B, lit("streamline"), opt("s"), WsPlus, lit("the"), B>>,
        replacement |-> "reduces friction in"],
       [pattern |-> <<B, lit("streamline"), opt("s"), Ws>>, replacement |-> "reduces "],
       [pattern |-> <<B, lit("smoother"), WsPlus, lit("operational"), B>>,
        replacement |-> "fewer disruptive"],
       [pattern |-> <<B, lit("operational"), WsPlus, lit("workflow"), opt("s"), B>>,
        replacement |-> "cross-functional processes"],
       [pattern |-> <<B, lit("operational"), WsPlus, lit("readiness"), B>>,
        replacement |-> "team focus"],
       [pattern |-> <<B, lit("operational"), WsPlus, lit("efficiency"), B>>,
        replacement |-> "qualification clarity"],
       [pattern |-> <<B, lit("can disrupt workflow significantly"), B>>,
        replacement |-> "pulls your team off planned work"],
       [pattern |-> <<B, lit("save your team time"), B>>,
        replacement |-> "free your team from unqualified noise"],
       [pattern |-> <<B, lit("waste valuable time"), B>>,
        replacement |-> "cost your team cycles on deals that never close"] >>

\* \w at position p of text; a position outside the text holds no word character
isWordAt(text, p) ==
    /\ p >= 1 /\ p <= Len(text)
    /\ LET c == SubSeq(text, p, p)
       IN  c \in LowerLetters \/ c \in DOMAIN UpperToLower \/ c \in Digits \/ c = "_"

\* the positions at which a match of elements i.. of the pattern, begun at
\* position pos, can end (one past its last character)
RECURSIVE matchEnds(_, _, _, _, _)
matchEnds(text, lowered, pattern, i, pos) ==
    IF i > Len(pattern) THEN {pos}
    ELSE LET e == pattern[i]
             after == pos + Len(e.s)
             literal == after - 1 <= Len(text) /\ SubSeq(lowered, pos, after - 1) = e.s
         IN  CASE e.k = "lit" ->
                    IF literal THEN matchEnds(text, lowered, pattern, i + 1, after) ELSE {}
               [] e.k = "opt" ->
                    matchEnds(text, lowered, pattern, i + 1, pos)
                    \cup (IF literal THEN matchEnds(text, lowered, pattern, i + 1, after)
                          ELSE {})
               [] e.k = "ws" ->
                    IF pos <= Len(text) /\ isSpace(SubSeq(text, pos, pos))
                    THEN matchEnds(text, lowered, pattern, i + 1, pos + 1) ELSE {}
               [] e.k = "ws+" ->
                    UNION {matchEnds(text, lowered, pattern, i + 1, q) :
                                q \in (pos + 1)..skipSpaces(text, pos)}
               [] e.k = "b" ->
                    IF isWordAt(text, pos - 1) # isWordAt(text, pos)
                    THEN matchEnds(text, lowered, pattern, i + 1, pos) ELSE {}

\* where the match the engine reports at pos ends, 0 when there is none. The
\* optional and repeated elements are greedy, and in every pattern of the
\* table the greedy choice is the one that ends last.
matchEnd(text, lowered, pattern, pos) ==
    LET ends == matchEnds(text, lowered, pattern, 1, pos)
    IN  IF ends = {} THEN 0 ELSE CHOOSE a \in ends : \A b \in ends : a >= b

\* text.replace(pattern, replacement) with the g flag, from position pos on
RECURSIVE replaceFrom(_, _, _, _, _)
replaceFrom(text, lowered, pattern, replacement, pos) ==
    LET starts == {p \in pos..Len(text) : matchEnd(text, lowered, pattern, p) > 0}
    IN  IF starts = {} THEN SubSeq(text, pos, Len(text))
        ELSE LET p == CHOOSE a \in starts : \A b \in starts : a <= b
             IN  SubSeq(text, pos, p - 1) \o replacement
                    \o replaceFrom(text, lowered, pattern, replacement,
                                   matchEnd(text, lowered, pattern, p))

\* the for loop of sanitizeText from entry k of TEXT_REPLACEMENTS on
RECURSIVE sanitizeFrom(_, _)
sanitizeFrom(text, k) ==
    IF k > Len(TEXT_REPLACEMENTS) THEN text
    ELSE sanitizeFrom(replaceFrom(text, toLowerCase(text), TEXT_REPLACEMENTS[k].pattern,
                                  TEXT_REPLACEMENTS[k].replacement, 1),
                      k + 1)

\* sanitizeText(text)
sanitizeText(text) == sanitizeFrom(text, 1)

sanitizeFieldTrimmed(x) ==
    IF typeof(x) = "string" THEN Str(trim(sanitizeText(x.v))) ELSE x

\* x = sanitizeText(x) when typeof x === 'string'
sanitizeField(x) == IF typeof(x) = "string" THEN Str(sanitizeText(x.v)) ELSE x

\* sanitizeOutput(parsed): parsed as the function leaves it. It is called on
\* a value that passed validateOutputStructure.
sanitizeOutput(p) ==
    LET analysis == prop(p, "analysis")
        cleaned ==
            IF analysis.t = "object"
            THEN [analysis EXCEPT
                    !.value_proposition = sanitizeField(analysis.value_proposition),
                    !.prospect_insights = sanitizeField(analysis.prospect_insights)]
            ELSE analysis
        messages == prop(p, "messages")
    IN  [p EXCEPT
            !.analysis = cleaned,
            !.messages =
                IF isArray(messages)
                THEN Arr([i \in DOMAIN messages.v |->
                            IF messages.v[i].t = "object"
                            THEN [messages.v[i] EXCEPT
                                    !.message = sanitizeField(messages.v[i].message)]
                            ELSE messages.v[i]])
                ELSE messages]

----------------------------------------------------------------------------
(* Confidence: calculateConfidence and the blend with the model's own      *)
(* figure. Confidences are held in thousandths.                            *)

CROSS_FUNCTIONAL_WORKFLOW_HINTS ==
    << "sales-engineering handoff", "technical validation loop",
       "prospect qualification feedback cycle", "founder interrupt-driven engineering",
       "inbound triage burden", "pre-sales technical review",
       "outbound personalization research load", "qualification loop",
       "inbound triage", "technical validation step",
       "cross-functional escalation loop" >>

\* the alternatives of the pattern in hasNamedWorkflow
NAMED_WORKFLOW_WORDS ==
    { "handoff", "triage", "qualification", "validation", "pre-sales", "interrupt",
      "research load", "review cycle" }

\* hasNamedWorkflow(text)
hasNamedWorkflow(text) ==
    LET n == toLowerCase(text)
    IN  \/ hits(n, CROSS_FUNCTIONAL_WORKFLOW_HINTS)
        \/ \E w \in NAMED_WORKFLOW_WORDS : \E p \in 1..(Len(n) - Len(w) + 1) :
                /\ SubSeq(n, p, p + Len(w) - 1) = w
                /\ isWordAt(n, p - 1) # isWordAt(n, p)
                /\ isWordAt(n, p + Len(w) - 1) # isWordAt(n, p + Len(w))

\* Array.from(new Set(tokens)): first occurrences, in order
RECURSIVE firstOccurrences(_, _, _)
firstOccurrences(tokens, i, acc) ==
    IF i > Len(tokens) THEN acc
    ELSE firstOccurrences(tokens, i + 1,
            IF \E j \in DOMAIN acc : acc[j] = tokens[i] THEN acc
            ELSE Append(acc, tokens[i]))

\* extractSignalKeywords(text)
extractSignalKeywords(text) ==
    LET keep(t) == Len(t) >= 4 /\ t \notin STOPWORDS
        unique == firstOccurrences(SelectSeq(split(toLowerCase(text), "alnum"), keep),
                                   1, <<>>)
    IN  SubSeq(unique, 1, IF Len(unique) < 12 THEN Len(unique) ELSE 12)

CONFIDENCE_FLOOR == 400

CONFIDENCE_CEILING == 950

calculateConfidenceSymmetric(p, profile) ==
    LET analysis == IF truthy(prop(p, "analysis")) THEN prop(p, "analysis")
                    ELSE [t |-> "object"]
        insights == str(prop(analysis, "prospect_insights"))
        valueProp == str(prop(analysis, "value_proposition"))
        skills == [k \in DOMAIN profile.skills |-> toLowerCase(profile.skills[k])]
        headlineKw == extractSignalKeywords(profile.headline)
        score ==
            500
            + (IF Len(skills) > 0 THEN (IF hits(insights, skills) THEN 200 ELSE -100)
               ELSE -100)
            + (IF Len(headlineKw) > 0 /\ hits(insights, headlineKw) THEN 150 ELSE -150)
            + (IF hasNamedWorkflow(valueProp) /\ Len(headlineKw) > 0
                    /\ hits(valueProp, headlineKw)
               THEN 150 ELSE -150)
            + (IF hits(insights, ANALYSIS_GENERIC_PHRASES) THEN -200 ELSE 0)
        capped == IF score < CONFIDENCE_CEILING THEN score ELSE CONFIDENCE_CEILING
    IN  IF capped > CONFIDENCE_FLOOR THEN capped ELSE CONFIDENCE_FLOOR

\* calculateConfidence(parsed, prospectData), in thousandths
calculateConfidence(p, profile) ==
    LET analysis == IF truthy(prop(p, "analysis")) THEN prop(p, "analysis")
                    ELSE [t |-> "object"]
        insights == str(prop(analysis, "prospect_insights"))
        valueProp == str(prop(analysis, "value_proposition"))
        skills == [k \in DOMAIN profile.skills |-> toLowerCase(profile.skills[k])]
        headlineKw == extractSignalKeywords(profile.headline)
        score ==
            500
            + (IF Len(skills) > 0 THEN (IF hits(insights, skills) THEN 200 ELSE -100)
               ELSE -100)
            + (IF Len(headlineKw) > 0 /\ hits(insights, headlineKw) THEN 150 ELSE -100)
            + (IF hasNamedWorkflow(valueProp) /\ Len(headlineKw) > 0
                    /\ hits(valueProp, headlineKw)
               THEN 150 ELSE -100)
            + (IF hits(insights, ANALYSIS_GENERIC_PHRASES) THEN -200 ELSE 0)
        capped == IF score < CONFIDENCE_CEILING THEN score ELSE CONFIDENCE_CEILING
    IN  IF capped > CONFIDENCE_FLOOR THEN capped ELSE CONFIDENCE_FLOOR

DEFAULT_AI_CONFIDENCE == 500

BLEND_TOLERANCE == 300

absoluteDifference(a, b) == IF a >= b THEN a - b ELSE b - a

\* parsed.confidence || 0.5
aiConfidence(confidence) ==
    IF truthy(confidence) THEN confidence.v ELSE DEFAULT_AI_CONFIDENCE

\* Math.abs(aiConf - calcConf) > 0.3 ? calcConf : (aiConf + calcConf) / 2
blendConfidence(aiConf, calcConf) ==
    IF absoluteDifference(aiConf, calcConf) > BLEND_TOLERANCE THEN calcConf
    ELSE (aiConf + calcConf) \div 2

\* the object generateSequenceWithAI returns (token usage and the raw
\* response are left out)
aiGenerationResult(p, profile) ==
    [ analysis |-> IF truthy(prop(p, "analysis")) THEN prop(p, "analysis")
                   ELSE [t |-> "object"],
      messages |-> prop(p, "messages"),
      confidence |-> blendConfidence(aiConfidence(prop(p, "confidence")),
                                     calculateConfidence(p, profile)) ]

NoResult == [confidence |-> -1]

----------------------------------------------------------------------------
(* Inputs of the generation pipeline: what the model call can return.      *)

MaxSequenceLength == 10

MaxExtraWords == 1

\* the prospects the pipeline is run for
GenerationRoles == {"DevOps", "Sales"}

Vocabulary ==
    << "most", "platform", "leads", "field", "late", "security", "review",
       "requests", "from", "unqualified", "prospects" >>

\* words j..k of a text; style "ragged" separates words by runs of white space
RECURSIVE wordsFrom(_, _, _)
wordsFrom(j, k, style) ==
    IF j > k THEN ""
    ELSE IF j = k THEN Vocabulary[((j - 1) % Len(Vocabulary)) + 1]
    ELSE LET mid == (j + k) \div 2
             gap == IF style = "ragged" THEN (IF mid % 2 = 0 THEN "  " ELSE " \n")
                    ELSE " "
         IN  wordsFrom(j, mid, style) \o gap \o wordsFrom(mid + 1, k, style)

\* a text of k words; the ragged one is also wrapped in white space
wordsText(k, style) ==
    IF style = "ragged" THEN "  " \o wordsFrom(1, k, style) \o " \n"
    ELSE wordsFrom(1, k, style)

\* word counts of a first message around the step 1 ceiling
FirstWordCounts ==
    (STEP_ONE_WORD_LIMIT - MaxExtraWords)..(STEP_ONE_WORD_LIMIT + MaxExtraWords)

LayerTexts ==
    << "Hi Neo, most DevOps leads I talk to field late security review requests for unqualified prospects while deep in Kubernetes work.",
       "Security reviews often start before anyone confirms budget or timeline, so the work lands and the deal stalls anyway.",
       "It usually begins upstream where qualification lacks precision and technical validation fires too early.",
       "We tighten that qualification layer so reviews happen only once intent is confirmed. Want to see the filter?",
       "One platform group cut ad-hoc review load by routing technical asks through a gate first.",
       "The same filter spares compliance staff from questionnaires on deals that never close." >>

messageText(i) ==
    IF i <= Len(LayerTexts) THEN LayerTexts[i]
    ELSE "Circling back with angle " \o ToString(i) \o " on pipeline noise."

ReasoningText ==
    "Angle: late-stage reviews | Workflow: security review cycle | Signal: Kubernetes"

StepPatterns ==
    { "sequential", "absent", "null", "zeroBased", "constant", "reversed",
      "text", "fraction" }

\* the step value the model wrote at position i of n
stepValue(pattern, i, n) ==
    CASE pattern = "sequential" -> Num(i * 1000)
      [] pattern = "absent" -> Undefined
      [] pattern = "null" -> Null
      [] pattern = "zeroBased" -> Num((i - 1) * 1000)
      [] pattern = "constant" -> Num(7000)
      [] pattern = "reversed" -> Num((n + 1 - i) * 1000)
      [] pattern = "text" -> Str(ToString(i))
      [] pattern = "fraction" -> Num(i * 1000 + 500)

messageObject(step, message, reasoning) ==
    [t |-> "object", step |-> step, message |-> message, reasoning |-> reasoning]

ItemFaults == {"none", "blankMessage", "blankReasoning", "nullItem", "stringItem"}

\* element i of a messages array of n elements: firstText is the text of the
\* first message, fault the defect of the last element
messageItem(i, n, pattern, firstText, fault) ==
    LET step == stepValue(pattern, i, n)
        text == IF i = 1 THEN firstText ELSE messageText(i)
    IN  IF i # n \/ fault = "none" THEN messageObject(step, Str(text), Str(ReasoningText))
        ELSE CASE fault = "blankMessage" ->
                    messageObject(step, Str(" \n "), Str(ReasoningText))
               [] fault = "blankReasoning" -> messageObject(step, Str(text), Str(""))
               [] fault = "nullItem" -> Null
               [] fault = "stringItem" -> Str(text)

AnalysisObject ==
    [ t |-> "object",
      prospect_insights |-> Str("Runs Kubernetes and CI/CD for release reliability"),
      value_proposition |-> Str("Fewer unqualified security reviews reach the platform team"),
      personalization_hooks |-> Arr(<<Str("Kubernetes"), Str("release reliability")>>) ]

rootObject(analysis, messages, confidence) ==
    [t |-> "object", analysis |-> analysis, messages |-> messages,
     confidence |-> confidence]

\* a reply with count messages
reply(count, pattern, firstText, fault) ==
    rootObject(AnalysisObject,
               Arr([i \in 1..count |-> messageItem(i, count, pattern, firstText, fault)]),
               Num(800))

MaxVariedLength == 3

\* the confidence figures the model reports, in thousandths; none lies
\* exactly 0.3 from a calculated confidence, where the comparison of line
\* 1118 depends on the rounding of the double subtraction
ModelConfidences == {-100, 0, 200, 400, 800, 1000, 1200, 1300}

\* an analysis whose value proposition names a workflow and a headline word
GroundedAnalysis ==
    [AnalysisObject EXCEPT
        !.value_proposition =
            Str("Tighter qualification keeps release and pipeline work uninterrupted")]

\* an analysis of marketing phrases, with a single hook
GenericAnalysis ==
    [ t |-> "object",
      prospect_insights |-> Str("An industry-leading operator who values Operational  Efficiency"),
      value_proposition |-> Str("We streamline the operational workflows and save your team time"),
      personalization_hooks |-> Arr(<<Str("operator")>>) ]

\* the usual analysis with three hooks
ThreeHookAnalysis ==
    [AnalysisObject EXCEPT
        !.personalization_hooks =
            Arr(<<Str("Kubernetes"), Str("release reliability"), Str("CI/CD")>>)]

AnalysisVariants == {AnalysisObject, GroundedAnalysis, GenericAnalysis, ThreeHookAnalysis}

\* an analysis whose value proposition makes a hard domain claim
HardClaimAnalysis ==
    [AnalysisObject EXCEPT
        !.value_proposition = Str("We improve deployment speed for the platform team")]

\* a first message that makes a hard domain claim
HardClaimText == "Hi Neo, we boost reliability of your Kubernetes releases."

\* a first message the sanitizer rewrites
SanitizableText ==
    "Hi Neo, Streamlining  reviews streamlines handoffs, so late asks no longer waste valuable time."

OverlapWords == <<"reviews", "stall", "pipeline", "deals">>

FreshWords == <<"budget", "cycles", "slip", "quarterly">>

\* two adjacent messages of four content words each, k of them shared
overlapTexts(k) ==
    LET word(i) == IF i <= k THEN OverlapWords[i] ELSE FreshWords[i]
    IN  << "Our " \o OverlapWords[1] \o " " \o OverlapWords[2] \o " the "
                \o OverlapWords[3] \o " " \o OverlapWords[4] \o ".",
           "Then " \o word(1) \o " " \o word(2) \o " and " \o word(3) \o " "
                \o word(4) \o "." >>

\* two messages that share no content word until sanitization rewrites the
\* first
RewrittenTexts ==
    << "Late asks waste valuable time.", "Deals never close and cycles slip." >>

\* messages that end with a question mark
QuestionTexts ==
    << "Hi Neo, do late security asks still reach your Kubernetes team?",
       "Would earlier qualification spare your release work?  ",
       "Open to comparing notes on review cycles?" >>

\* a correctly numbered reply with the given analysis, leading message texts
\* and confidence
replyWith(count, analysis, texts, confidence) ==
    rootObject(analysis,
               Arr([i \in 1..count |->
                        messageObject(Num(i * 1000),
                                      Str(IF i <= Len(texts) THEN texts[i]
                                          ELSE messageText(i)),
                                      Str(ReasoningText))]),
               Num(confidence))

\* for the shorter sequences: every analysis with every confidence figure,
\* the sanitizable message, and the pairs of overlapping messages
VariedReplies(n) ==
    IF n > MaxVariedLength THEN {}
    ELSE {replyWith(n, analysis, <<>>, confidence) :
            analysis \in AnalysisVariants, confidence \in ModelConfidences}
         \cup {replyWith(n, AnalysisObject, <<SanitizableText>>, 800)}
         \cup {replyWith(n, HardClaimAnalysis, <<>>, 800),
                replyWith(n, AnalysisObject, <<HardClaimText>>, 800)}
         \cup {replyWith(n, AnalysisObject, overlapTexts(k), 800) :
                    k \in 0..Len(OverlapWords)}
         \cup {replyWith(n, AnalysisObject, RewrittenTexts, 800)}
         \cup {replyWith(n, AnalysisObject, SubSeq(QuestionTexts, 1, k), 800) :
                    k \in 1..Len(QuestionTexts)}

\* replies of the requested length: every step pattern with every defect of
\* the last element, and first messages around the ceiling under two patterns
RepliesOfLength(n) ==
    {reply(n, pattern, messageText(1), fault) :
        pattern \in StepPatterns, fault \in ItemFaults}
    \cup {reply(n, pattern, wordsText(k, style), "none") :
            pattern \in {"sequential", "constant"}, k \in FirstWordCounts,
            style \in {"single", "ragged"}}
    \cup VariedReplies(n)

\* replies structural validation rejects before it reaches the elements
MalformedReplies(n) ==
    LET good == reply(n, "sequential", messageText(1), "none")
    IN  { Null, Str("ok"), Arr(<<>>),
          [good EXCEPT !.analysis = Undefined],
          [good EXCEPT !.analysis = Str("none")],
          [good EXCEPT !.messages = Undefined],
          [good EXCEPT !.messages = AnalysisObject],
          [good EXCEPT !.confidence = Undefined],
          [good EXCEPT !.confidence = Str("0.8")],
          reply(n + 1, "sequential", messageText(1), "none"),
          reply(n - 1, "sequential", messageText(1), "none") }

\* the content of the response for a request of n messages
Contents(n) ==
    {[form |-> "json", value |-> v] : v \in RepliesOfLength(n) \cup MalformedReplies(n)}
    \cup {[form |-> f, value |-> reply(n, "constant", messageText(1), "none")] :
            f \in {"fencedJson", "fenced"}}
    \cup {[form |-> f, value |-> Undefined] : f \in {"fencedInvalid", "text", "empty"}}

\* generateSequenceWithAI has not been called
GenerationIdle ==
    /\ openaiClient = TRUE
    /\ sequenceLength = 1
    /\ pc = "idle"
    /\ stepProgression = <<>>
    /\ frictionBlock = <<>>
    /\ content = NoContent
    /\ parsed = Undefined
    /\ issues = <<>>
    /\ error = "none"
    /\ result = NoResult

----------------------------------------------------------------------------
(* generateSequenceService: the requests, the tables, and what one call of *)
(* generateSequenceWithAI makes of the model's response.                   *)

\* const PROMPT_VERSION = 'v5.2'
PROMPT_VERSION == "v5.2"

\* the prompt version of the superseded pipeline, found on older rows
SUPERSEDED_PROMPT_VERSION == "v1.2"

\* prospect_url of the requests
ProspectUrl == "https://www.linkedin.com/in/neo-anderson"

\* tov_config of the requests, in thousandths
TovConfigs ==
    { [formality |-> 200, warmth |-> 500, directness |-> 800],
      [formality |-> 800, warmth |-> 500, directness |-> 200] }

\* the calls of generateSequenceService in flight together
Requests == {"r1", "r2"}

\* sequence_length of the requests
ServiceLengths == {1, 2}

\* generateSequenceWithAI from the resolution of the model call to its return
\* or throw. The issues validateContentQuality returns are only logged.
\* threw is what the console.error before the throw logs, "" when it returns.
generationOutcome(c, profile, n) ==
    LET thrown(logged) == [threw |-> logged, result |-> NoResult]
        p == parseAIJsonContent(c)
        v == validateOutputStructure(p.value, n)
    IN  IF c.form = "empty" THEN thrown("Empty response from OpenAI API")
        ELSE IF p.threw THEN thrown("AI generation error: invalid JSON")
        ELSE IF v.threw # "" THEN thrown("AI generation error: " \o v.threw)
        ELSE [threw |-> "",
              result |-> aiGenerationResult(sanitizeOutput(v.parsed), profile)]

\* what the model call resolves with in the service runs: two well-formed
\* replies of different confidence, a reply with one message too many, a
\* text that is not JSON, and no content
ServiceContents(n) ==
    {[form |-> "json", value |-> replyWith(n, AnalysisObject, overlapTexts(1), confidence)] :
        confidence \in {400, 800}}
    \cup {[form |-> "json",
           value |-> replyWith(n + 1, AnalysisObject, overlapTexts(1), 800)]}
    \cup {[form |-> f, value |-> Undefined] : f \in {"text", "empty"}}

\* generationOutcome for every profile, length and response of the service
\* runs
GenerationOutcomes ==
    [role \in GenerationRoles |->
        [n \in ServiceLengths |->
            [c \in ServiceContents(n) |-> generationOutcome(c, enrich(role), n)]]]

\* a message_sequences row; its id is its position in the table, which is
\* also the order of createdAt
sequenceRow(url, tovConfigId, context, n, generated) ==
    [ prospect |-> url, tovConfigId |-> tovConfigId, companyContext |-> context,
      sequenceLength |-> n, analysis |-> generated.analysis,
      messages |-> generated.messages, confidence |-> generated.confidence ]

\* the SequenceResponse built from a message_sequences row
sequenceResponse(row) ==
    [analysis |-> row.analysis, messages |-> row.messages, confidence |-> row.confidence]

NoResponse == [confidence |-> -1]

EmptyDb == [prospects |-> {}, tovConfigs |-> <<>>, sequences |-> <<>>, generations |-> <<>>]

\* what an earlier request stored, for every profile and length
StoredResults ==
    [role \in GenerationRoles |->
        [n \in ServiceLengths |->
            generationOutcome([form |-> "json",
                               value |-> replyWith(n, GroundedAnalysis,
                                                  overlapTexts(0), 800)],
                              enrich(role), n).result]]

\* the tables after one earlier request for tov, stored under promptVersion
StoredDb(tov, context, n, profile, promptVersion) ==
    [ prospects |-> {ProspectUrl},
      tovConfigs |-> <<tov>>,
      sequences |->
        << sequenceRow(ProspectUrl, 1, context, n,
                       StoredResults[profile.roleCategory][n]) >>,
      generations |-> <<[sequenceId |-> 1, promptVersion |-> promptVersion]>> ]

\* a call of generateSequenceService that has parsed its input
newRequest(tov) ==
    [ pc |-> "findProspect", tov |-> tov, tovId |-> 0, aiResult |-> NoResult,
      response |-> NoResponse, error |-> "none", logged |-> "", cached |-> FALSE,
      enrichCalls |-> 0, strategyCalls |-> 0, modelCalls |-> 0, wrote |-> {} ]

\* no call of generateSequenceService is in progress
ServiceIdle ==
    /\ requests = [r \in Requests |-> [newRequest(CHOOSE tov \in TovConfigs : TRUE)
                                            EXCEPT !.pc = "idle"]]
    /\ db = EmptyDb

----------------------------------------------------------------------------
(* Inputs of the strategy engine.                                          *)

\* the contexts of the two worked scenarios
ScenarioAContext ==
    "We help sales teams qualify prospects so fewer security reviews are triggered"

ScenarioBContext == "we make things better"

\* company_context of the generation runs of n messages: Scenario A, which
\* targets Sales, and for the shorter sequences a context that targets DevOps
GenerationContexts(n) ==
    IF n <= MaxVariedLength THEN {ScenarioAContext, "automation"}
    ELSE {ScenarioAContext}

\* phrases a company context is assembled from
Phrases ==
    { "sales teams", "Security Reviews", "compliance audit", "automation",
      "data team", "demo environment", "roadmap", "backend handoff" }

MaxPhrases == 2

RECURSIVE PhraseTexts(_)
PhraseTexts(n) ==
    IF n = 0 THEN {""}
    ELSE LET shorter == PhraseTexts(n - 1)
         IN  shorter \cup Phrases
                \cup {t \o " " \o p : t \in shorter \ {""}, p \in Phrases}

\* a context that targets Product and addresses every Product friction the
\* bridge covers
ProductContext == "We qualify and filter feature requests before they reach the roadmap"

Contexts == PhraseTexts(MaxPhrases) \cup {ScenarioAContext, ScenarioBContext, ProductContext}

NoStrategy == [targetPersona |-> "none"]

----------------------------------------------------------------------------
(* The strategy engine applied to its inputs.                              *)

InitStrategy ==
    /\ companyContext \in Contexts
    /\ enrichedRole \in RoleCategory
    /\ strategy = NoStrategy
    /\ prevStrategy = NoStrategy
    /\ prevRole = "none"
    /\ prospectData = enrich(enrichedRole)
    /\ GenerationIdle
    /\ ServiceIdle

\* one call computeMessageStrategy(company_context, profile.roleCategory)
ComputeMessageStrategy ==
    /\ strategy' = computeMessageStrategy(companyContext, enrichedRole)
    /\ prevStrategy' = strategy
    /\ prevRole' = IF strategy = NoStrategy THEN "none" ELSE enrichedRole
    /\ UNCHANGED <<companyContext, enrichedRole, generationVars, serviceVars>>

\* the same company_context submitted for a prospect the provider enriches to
\* another role: enrich(prospect_url), then computeMessageStrategy. Two
\* consecutive calls are compared, so the role changes once.
ComputeForProspect(role) ==
    /\ strategy # NoStrategy
    /\ prevStrategy = NoStrategy
    /\ role # enrichedRole
    /\ enrichedRole' = role
    /\ strategy' = computeMessageStrategy(companyContext, role)
    /\ prevStrategy' = strategy
    /\ prevRole' = enrichedRole
    /\ prospectData' = enrich(role)
    /\ UNCHANGED <<companyContext, openaiClient, sequenceLength, pc,
                   stepProgression, frictionBlock, content, parsed, issues, error, result,
                   serviceVars>>

NextStrategy ==
    \/ ComputeMessageStrategy
    \/ \E role \in RoleCategory : ComputeForProspect(role)

SpecStrategy == InitStrategy /\ [][NextStrategy]_vars

----------------------------------------------------------------------------
(* Properties of the strategy engine, checked under SpecStrategy.          *)

Computed == strategy # NoStrategy

\* C1: for every company context and every enriched role, every workflow in
\* activeWorkflows of the returned strategy is one of its allowedWorkflows.
ActiveSubsetOfAllowed ==
    Computed => Range(strategy.activeWorkflows) \subseteq Range(strategy.allowedWorkflows)

\* a strategy whose capabilities address some, but not all, frictions of the persona
ActiveProperSubsetReached ==
    /\ Computed
    /\ Len(strategy.activeWorkflows) > 0
    /\ Len(strategy.activeWorkflows) < Len(strategy.allowedWorkflows)
    /\ Len(strategy.capabilityTags) > 1

\* C2: alignmentScore (in hundredths) lies between 0 and 100, and it is 0
\* exactly when activeWorkflows is empty.
AlignmentScoreBounds ==
    Computed =>
        /\ 0 <= strategy.alignmentScore
        /\ strategy.alignmentScore <= 100
        /\ (strategy.alignmentScore = 0 <=> Len(strategy.activeWorkflows) = 0)

\* strategies of both kinds exist; this one has one active workflow of four
LowNonZeroScoreReached ==
    /\ Computed
    /\ Len(strategy.activeWorkflows) = 1
    /\ strategy.alignmentScore = 25

\* C3: extractCapabilityTags returns at least one capability tag for every
\* input string, the empty string and strings matching no keyword included.
CapabilityTagsNonEmpty ==
    Computed =>
        /\ strategy.capabilityTags = extractCapabilityTags(companyContext)
        /\ Len(strategy.capabilityTags) >= 1
        /\ Range(strategy.capabilityTags) \subseteq CapabilityTag

\* the empty string, whose tags come from the last-resort fallback
EmptyContextTagged ==
    /\ Computed
    /\ companyContext = ""
    /\ strategy.capabilityTags = <<"qualification">>

\* C4: two calls with the same company context agree on targetPersona,
\* capabilityTags, allowedWorkflows, activeWorkflows and alignmentScore whatever
\* the enriched roles are, and on the whole strategy when the roles agree too.
EnrichedRoleOnlyInNote ==
    (Computed /\ prevStrategy # NoStrategy) =>
        /\ strategy.targetPersona = prevStrategy.targetPersona
        /\ strategy.capabilityTags = prevStrategy.capabilityTags
        /\ strategy.allowedWorkflows = prevStrategy.allowedWorkflows
        /\ strategy.activeWorkflows = prevStrategy.activeWorkflows
        /\ strategy.alignmentScore = prevStrategy.alignmentScore
        /\ (prevRole = enrichedRole => strategy = prevStrategy)

\* two calls with different enriched roles, one of them the inferred persona:
\* the notes differ and nothing else does
TwoRolesCompared ==
    /\ Computed
    /\ prevStrategy # NoStrategy
    /\ prevRole # enrichedRole
    /\ prevRole = strategy.targetPersona
    /\ strategy.alignmentNote # prevStrategy.alignmentNote

\* the call made for Scenario A: its context, enriched role Engineering
ScenarioACalled ==
    /\ Computed
    /\ companyContext = ScenarioAContext
    /\ enrichedRole = "Engineering"

\* C5: Scenario A infers targetPersona Security and the alignment note states
\* a persona shift.
ScenarioAPersona ==
    ScenarioACalled =>
        /\ strategy.targetPersona = "Security"
        /\ includes(strategy.alignmentNote, "Persona shift")

\* C6: Scenario A extracts qualification and security-review-reduction, and
\* the alignment score is 1.0 with all four allowed workflows active.
ScenarioAAlignment ==
    ScenarioACalled =>
        /\ {"qualification", "security-review-reduction"}
                \subseteq Range(strategy.capabilityTags)
        /\ strategy.alignmentScore = 100
        /\ Len(strategy.activeWorkflows) = 4

\* a context in which no role keyword, no fallback substring of either
\* heuristic and no capability keyword occurs
MatchesNothing(context) ==
    LET ctx == toLowerCase(context)
    IN  /\ \A s \in DOMAIN CONTEXT_ROLE_SIGNALS :
                ~someIncluded(ctx, CONTEXT_ROLE_SIGNALS[s].keywords)
        /\ \A m \in DOMAIN CONTEXT_CAPABILITY_MAP :
                ~someIncluded(ctx, CONTEXT_CAPABILITY_MAP[m].keywords)
        /\ ~someIncluded(ctx, <<"sales", "automate", "security", "automation">>)

\* C7: Scenario B: a context matching nothing yields targetPersona Engineering,
\* capabilityTags exactly {qualification} and an alignment score above zero.
ScenarioBDefaults ==
    (Computed /\ MatchesNothing(companyContext)) =>
        /\ strategy.targetPersona = "Engineering"
        /\ strategy.capabilityTags = <<"qualification">>
        /\ strategy.alignmentScore > 0

\* the context of Scenario B itself: three of Engineering's four frictions
ScenarioBCalled ==
    /\ Computed
    /\ companyContext = ScenarioBContext
    /\ MatchesNothing(companyContext)
    /\ strategy.alignmentScore = 75

----------------------------------------------------------------------------
(* generateSequenceWithAI(prospectData, companyContext, tovDescription,    *)
(* sequenceLength, strategy), one step per stage of its try block.         *)

InitGenerate ==
    /\ sequenceLength \in 1..MaxSequenceLength
    /\ companyContext \in GenerationContexts(sequenceLength)
    /\ enrichedRole \in GenerationRoles
    /\ prospectData = enrich(enrichedRole)
    /\ strategy = computeMessageStrategy(companyContext, enrichedRole)
    /\ prevStrategy = NoStrategy
    /\ prevRole = "none"
    /\ openaiClient \in BOOLEAN
    /\ pc = "start"
    /\ stepProgression = <<>>
    /\ frictionBlock = <<>>
    /\ content = NoContent
    /\ parsed = Undefined
    /\ issues = <<>>
    /\ error = "none"
    /\ result = NoResult
    /\ ServiceIdle

\* throw new AppError('AI generation failed', 500, 'AI_GENERATION_FAILED'),
\* thrown directly or rethrown by the catch block
Fail ==
    /\ pc' = "failed"
    /\ error' = "AI_GENERATION_FAILED"

\* the client check, then buildSystemPrompt and buildUserPrompt
BuildPrompts ==
    /\ pc = "start"
    /\ IF ~openaiClient
       THEN Fail /\ UNCHANGED <<stepProgression, frictionBlock>>
       ELSE /\ stepProgression' = buildStepProgression(sequenceLength)
            /\ frictionBlock' = strategyToPromptBlock(strategy)
            /\ pc' = "prompted"
            /\ UNCHANGED error
    /\ UNCHANGED <<strategyVars, serviceVars, openaiClient, prospectData, sequenceLength,
                   content, parsed, issues, result>>

\* await openai.chat.completions.create(...) resolves with some content
CallModel ==
    /\ pc = "prompted"
    /\ \E c \in Contents(sequenceLength) :
        /\ content' = c
        /\ IF c.form = "empty" THEN Fail ELSE pc' = "responded" /\ UNCHANGED error
    /\ UNCHANGED <<strategyVars, serviceVars, openaiClient, prospectData, sequenceLength,
                   stepProgression, frictionBlock, parsed, issues, result>>

\* await openai.chat.completions.create(...) rejects
CallModelRejects ==
    /\ pc = "prompted"
    /\ Fail
    /\ UNCHANGED <<strategyVars, serviceVars, openaiClient, prospectData, sequenceLength,
                   stepProgression, frictionBlock, content, parsed, issues, result>>

\* const parsed = parseAIJsonContent(content)
ParseContent ==
    /\ pc = "responded"
    /\ LET r == parseAIJsonContent(content)
       IN  IF r.threw THEN Fail /\ UNCHANGED parsed
           ELSE parsed' = r.value /\ pc' = "parsed" /\ UNCHANGED error
    /\ UNCHANGED <<strategyVars, serviceVars, openaiClient, prospectData, sequenceLength,
                   stepProgression, frictionBlock, content, issues, result>>

\* validateOutputStructure(parsed, sequenceLength)
ValidateStructure ==
    /\ pc = "parsed"
    /\ LET r == validateOutputStructure(parsed, sequenceLength)
       IN  /\ parsed' = r.parsed
           /\ IF r.threw # "" THEN Fail ELSE pc' = "validated" /\ UNCHANGED error
    /\ UNCHANGED <<strategyVars, serviceVars, openaiClient, prospectData, sequenceLength,
                   stepProgression, frictionBlock, content, issues, result>>

AssessQualityOfSanitized ==
    /\ pc = "validated"
    /\ issues' = validateContentQuality(sanitizeOutput(parsed), prospectData)
    /\ pc' = "assessed"
    /\ UNCHANGED <<strategyVars, serviceVars, openaiClient, prospectData, sequenceLength,
                   stepProgression, frictionBlock, content, parsed, error, result>>

\* const issues = validateContentQuality(parsed, prospectData, companyContext)
AssessQuality ==
    /\ pc = "validated"
    /\ issues' = validateContentQuality(parsed, prospectData)
    /\ pc' = "assessed"
    /\ UNCHANGED <<strategyVars, serviceVars, openaiClient, prospectData, sequenceLength,
                   stepProgression, frictionBlock, content, parsed, error, result>>

SanitizeOutputBlockedByIssues ==
    /\ pc = "assessed"
    /\ IF issues # <<>>
       THEN Fail /\ UNCHANGED parsed
       ELSE parsed' = sanitizeOutput(parsed) /\ pc' = "sanitized" /\ UNCHANGED error
    /\ UNCHANGED <<strategyVars, serviceVars, openaiClient, prospectData, sequenceLength,
                   stepProgression, frictionBlock, content, issues, result>>

\* sanitizeOutput(parsed)
SanitizeOutput ==
    /\ pc = "assessed"
    /\ parsed' = sanitizeOutput(parsed)
    /\ pc' = "sanitized"
    /\ UNCHANGED <<strategyVars, serviceVars, openaiClient, prospectData, sequenceLength,
                   stepProgression, frictionBlock, content, issues, error, result>>

\* calculateConfidence, the blend, and the return statement
ReturnResult ==
    /\ pc = "sanitized"
    /\ result' = aiGenerationResult(parsed, prospectData)
    /\ pc' = "returned"
    /\ UNCHANGED <<strategyVars, serviceVars, openaiClient, prospectData, sequenceLength,
                   stepProgression, frictionBlock, content, parsed, issues, error>>

NextGenerate ==
    \/ BuildPrompts
    \/ CallModel
    \/ CallModelRejects
    \/ ParseContent
    \/ ValidateStructure
    \/ AssessQuality
    \/ SanitizeOutput
    \/ ReturnResult

SpecGenerate == InitGenerate /\ [][NextGenerate]_vars

----------------------------------------------------------------------------
(* Properties of the generation pipeline, checked under SpecGenerate.      *)

\* buildSystemPrompt has run: the layer plan is in the prompt
PlanBuilt ==
    pc \in {"prompted", "responded", "parsed", "validated", "assessed", "sanitized",
            "returned"}

\* the step number a plan line announces: the text before its first colon
announces(line, i) == startsWith(line, ToString(i) \o ": ")

\* C8: for every sequenceLength n in 1..10 the layer plan built for the prompt
\* contains exactly n step layers, numbered 1..n in order.
LayerPlanHasOneLayerPerStep ==
    PlanBuilt =>
        /\ Len(stepProgression) = sequenceLength
        /\ \A i \in 1..Len(stepProgression) : announces(stepProgression[i], i)

\* the longest plan: five named layers, the expansion and four follow-ups
LongestPlanBuilt ==
    /\ PlanBuilt
    /\ sequenceLength = MaxSequenceLength
    /\ Len(stepProgression) = 10
    /\ startsWith(stepProgression[10], "10: Follow-up.")

\* validateContentQuality reported the first message as over the ceiling
StepOneReported ==
    \E j \in DOMAIN issues : startsWith(issues[j], "message 1 exceeds 60 words (")

\* the number of words the first message of the response was written with,
\* 0 when it is not one of the counted texts
firstMessageWords ==
    LET first == prop(prop(parsed, "messages").v[1], "message")
        counts == {k \in FirstWordCounts :
                      \E style \in {"single", "ragged"} : first = Str(wordsText(k, style))}
    IN  IF counts = {} THEN 0 ELSE CHOOSE k \in counts : TRUE

\* C9: for sequenceLength = 1 the layer plan is the single combined
\* Observation+CTA layer, and a first message of more than 60 words is
\* reported by the quality check while one of 60 words or fewer is not.
SingleStepPlanAndCeiling ==
    sequenceLength = 1 =>
        /\ PlanBuilt =>
            /\ Len(stepProgression) = 1
            /\ startsWith(stepProgression[1], "1: OBSERVATION + CTA.")
        /\ pc = "assessed" => (StepOneReported <=> firstMessageWords > 60)

\* a one-message sequence whose 61-word message was reported
SingleStepOverCeilingReported ==
    /\ sequenceLength = 1
    /\ pc = "assessed"
    /\ firstMessageWords = 61
    /\ "message 1 exceeds 60 words (61)" \in Range(issues)

\* validateOutputStructure has run on the parsed response
StructureChecked ==
    \/ pc \in {"validated", "assessed", "sanitized", "returned"}
    \/ (pc = "failed" /\ parsed # Undefined)

\* the response as the model wrote it: an object with an analysis object, a
\* numeric confidence and n messages, each an object with non-blank message
\* and reasoning strings; nothing is asked of the step values
WellFormedUpToSteps(raw, n) ==
    /\ raw.t = "object"
    /\ raw.analysis.t = "object"
    /\ raw.confidence.t = "number"
    /\ raw.messages.t = "array"
    /\ Len(raw.messages.v) = n
    /\ \A i \in 1..n :
        /\ raw.messages.v[i].t = "object"
        /\ raw.messages.v[i].message.t = "string"
        /\ raw.messages.v[i].reasoning.t = "string"
        /\ \E j \in 1..Len(raw.messages.v[i].message.v) :
                SubSeq(raw.messages.v[i].message.v, j, j) \notin {" ", "\t", "\n", "\r"}
        /\ \E j \in 1..Len(raw.messages.v[i].reasoning.v) :
                SubSeq(raw.messages.v[i].reasoning.v, j, j) \notin {" ", "\t", "\n", "\r"}

\* C10: a model output whose messages array has the requested length and whose
\* messages have non-empty message and reasoning passes structural validation
\* whatever its step values are (missing, duplicated, out of order,
\* non-integer), and afterwards messages[i].step = i+1 at every position.
StepsNormalized ==
    (StructureChecked /\ WellFormedUpToSteps(content.value, sequenceLength)) =>
        /\ pc # "failed"
        /\ \A i \in 1..sequenceLength : parsed.messages.v[i].step = Num(i * 1000)

\* a response that numbered every one of its three messages 7 was accepted
MisnumberedOutputAccepted ==
    /\ pc = "validated"
    /\ sequenceLength = 3
    /\ \A i \in 1..3 : content.value.messages.v[i].step = Num(7000)
    /\ \A i \in 1..3 : parsed.messages.v[i].step = Num(i * 1000)

\* the response as the model wrote it breaks the required structure: it is
\* not an object, lacks an object analysis, an array messages or a numeric
\* confidence, has another number of messages than n, or has an element whose
\* message or reasoning is not a non-empty string
StructurallyInvalid(raw, n) ==
    \/ raw.t # "object"
    \/ prop(raw, "analysis").t \notin {"object", "array"}
    \/ prop(raw, "messages").t # "array"
    \/ prop(raw, "confidence").t # "number"
    \/ Len(raw.messages.v) # n
    \/ \E i \in 1..Len(raw.messages.v) :
            \/ prop(raw.messages.v[i], "message").t # "string"
            \/ prop(raw.messages.v[i], "message").v = ""
            \/ prop(raw.messages.v[i], "reasoning").t # "string"
            \/ prop(raw.messages.v[i], "reasoning").v = ""

analysisAsReturned(raw) ==
    [raw.analysis EXCEPT
        !.value_proposition = Str(sanitizeText(raw.analysis.value_proposition.v)),
        !.prospect_insights = Str(sanitizeText(raw.analysis.prospect_insights.v))]

\* the messages the caller is to receive for the response raw: the model's
\* messages renumbered 1..n, the sanitizer applied to the message texts
messagesAsReturned(raw) ==
    Arr([i \in 1..Len(raw.messages.v) |->
            [raw.messages.v[i] EXCEPT
                !.step = Num(i * 1000),
                !.message = Str(sanitizeText(raw.messages.v[i].message.v))]])

\* C13: content-quality issues never block a request. For every structurally
\* valid model output, whatever quality issues are detected (for example
\* personalization_hooks with 1 or 3 entries), generation does not fail, and
\* the returned analysis and messages are the model's output except for step
\* normalization and the sanitizer's rewrites.
QualityIssuesNeverBlock ==
    (StructureChecked /\ WellFormedUpToSteps(content.value, sequenceLength)) =>
        /\ error = "none"
        /\ pc = "returned" =>
            /\ result.analysis = analysisAsReturned(content.value)
            /\ result.messages = messagesAsReturned(content.value)

\* a response with a single hook and marketing phrases was reported by the
\* quality check and returned, its analysis rewritten by the sanitizer only
OneHookOutputReturned ==
    /\ pc = "returned"
    /\ Len(content.value.analysis.personalization_hooks.v) = 1
    /\ "personalization_hooks must be exactly 2 (found 1)" \in Range(issues)
    /\ result.analysis # content.value.analysis
    /\ result.analysis.personalization_hooks = content.value.analysis.personalization_hooks

\* the content-word set of message i of the parsed response
contentWordsOf(i) == extractContentWords(str(prop(parsed.messages.v[i], "message")))

\* messages i and i+1 both have content words
Comparable(i) == contentWordsOf(i) # {} /\ contentWordsOf(i + 1) # {}

\* the number of content words messages i and i+1 share
sharedWords(i) == Cardinality(contentWordsOf(i) \cap contentWordsOf(i + 1))

\* the size of the smaller of the two content-word sets
smallerSize(i) ==
    LET a == Cardinality(contentWordsOf(i))
        b == Cardinality(contentWordsOf(i + 1))
    IN  IF a < b THEN a ELSE b

\* the quality check reported messages i and i+1 as too similar
Flagged(i) ==
    \E j \in DOMAIN issues :
        startsWith(issues[j], "messages " \o ToString(i) \o " and "
                                \o ToString(i + 1) \o " are too similar (")

\* C14 as stated: when the two adjacent messages both have content words,
\* the pair is flagged whenever the shared words are at least half of the
\* smaller set, and never when they share no content word.
RestatementFlaggedFromHalf ==
    pc = "assessed" =>
        \A i \in 1..(sequenceLength - 1) :
            Comparable(i) =>
                /\ 2 * sharedWords(i) >= smallerSize(i) => Flagged(i)
                /\ sharedWords(i) = 0 => ~Flagged(i)

\* C14, amended: when the two adjacent messages both have content words, the
\* pair is flagged exactly when the shared words are more than half of the
\* smaller set; a pair sharing exactly half, or no content word, is not
\* flagged.
RestatementFlaggedAboveHalf ==
    pc = "assessed" =>
        \A i \in 1..(sequenceLength - 1) :
            Comparable(i) => (Flagged(i) <=> 2 * sharedWords(i) > smallerSize(i))

\* two messages sharing three of four content words were flagged
ThreeOfFourFlagged ==
    /\ pc = "assessed"
    /\ sequenceLength >= 2
    /\ Comparable(1)
    /\ sharedWords(1) = 3
    /\ smallerSize(1) = 4
    /\ "messages 1 and 2 are too similar (75% overlap)" \in Range(issues)

\* C19: the returned confidence lies in [0, 1] for every structurally valid
\* model output, whatever number the model reports as its own confidence.
ConfidenceInUnitInterval ==
    pc = "returned" => (result.confidence >= 0 /\ result.confidence <= 1000)

\* the confidence the model reported in its response
reportedConfidence == content.value.confidence.v

\* C20: with m the model-reported confidence and c the calculated one, the
\* returned confidence is c when |m - c| > 0.3 and (m + c) / 2 otherwise.
ConfidenceBlendedFromReported ==
    pc = "returned" =>
        LET m == reportedConfidence
            c == calculateConfidence(parsed, prospectData)
            distance == IF m > c THEN m - c ELSE c - m
        IN  result.confidence = IF distance > 300 THEN c ELSE (m + c) \div 2

----------------------------------------------------------------------------
(* generateSequenceService under concurrent requests. Each action is the   *)
(* code between two awaits of one call.                                    *)

InitService ==
    /\ companyContext = ScenarioAContext
    /\ enrichedRole \in GenerationRoles
    /\ prospectData = enrich(enrichedRole)
    /\ strategy = computeMessageStrategy(companyContext, enrichedRole)
    /\ prevStrategy = NoStrategy
    /\ prevRole = "none"
    /\ openaiClient \in BOOLEAN
    /\ sequenceLength \in ServiceLengths
    /\ pc = "idle"
    /\ stepProgression = <<>>
    /\ frictionBlock = <<>>
    /\ content = NoContent
    /\ parsed = Undefined
    /\ issues = <<>>
    /\ error = "none"
    /\ result = NoResult
    /\ \E first \in TovConfigs :
        requests \in {[r \in Requests |-> newRequest(IF r = "r1" THEN first ELSE tov)] :
                        tov \in TovConfigs}
    /\ \E stored \in TovConfigs :
        db \in {EmptyDb}
               \cup {StoredDb(stored, companyContext, sequenceLength, prospectData, version) :
                        version \in {PROMPT_VERSION, SUPERSEDED_PROMPT_VERSION}}

\* the ids of the tov_configs rows with the values of tov
matchingTovIds(table, tov) == {i \in DOMAIN table.tovConfigs : table.tovConfigs[i] = tov}

matchingSequenceIdsOfAnyVersion(table, url, tovId, context, n) ==
    {i \in DOMAIN table.sequences :
        /\ table.sequences[i].prospect = url
        /\ table.sequences[i].tovConfigId = tovId
        /\ table.sequences[i].companyContext = context
        /\ table.sequences[i].sequenceLength = n}

\* the ids of the message_sequences rows the idempotency lookup accepts
matchingSequenceIds(table, url, tovId, context, n) ==
    {i \in DOMAIN table.sequences :
        /\ table.sequences[i].prospect = url
        /\ table.sequences[i].tovConfigId = tovId
        /\ table.sequences[i].companyContext = context
        /\ table.sequences[i].sequenceLength = n
        /\ \E g \in DOMAIN table.generations :
            /\ table.generations[g].sequenceId = i
            /\ table.generations[g].promptVersion = PROMPT_VERSION}

firstOf(ids) == CHOOSE i \in ids : \A j \in ids : i <= j

latestOf(ids) == CHOOSE i \in ids : \A j \in ids : i >= j

\* the other variables of a service step
ServiceFrame ==
    UNCHANGED <<strategyVars, openaiClient, prospectData, sequenceLength, pc,
                stepProgression, frictionBlock, content, parsed, issues, error, result>>

\* findExistingSequence: prisma.prospect.findUnique
FindProspect(r) ==
    /\ requests[r].pc = "findProspect"
    /\ requests' = [requests EXCEPT ![r].pc =
                        IF ProspectUrl \in db.prospects THEN "findTov" ELSE "enrich"]
    /\ UNCHANGED db
    /\ ServiceFrame

\* findExistingSequence: prisma.tovConfig.findFirst
FindTov(r) ==
    /\ requests[r].pc = "findTov"
    /\ LET ids == matchingTovIds(db, requests[r].tov)
       IN  requests' =
            IF ids = {} THEN [requests EXCEPT ![r].pc = "enrich"]
            ELSE [requests EXCEPT ![r].pc = "findSequence", ![r].tovId = firstOf(ids)]
    /\ UNCHANGED db
    /\ ServiceFrame

FindSequenceThenRefresh(r) ==
    /\ requests[r].pc = "findSequence"
    /\ LET ids == matchingSequenceIds(db, ProspectUrl, requests[r].tovId,
                                      companyContext, sequenceLength)
       IN  requests' =
            IF ids = {} THEN [requests EXCEPT ![r].pc = "enrich"]
            ELSE [requests EXCEPT
                    ![r].pc = "done",
                    ![r].cached = TRUE,
                    ![r].enrichCalls = @ + 1,
                    ![r].response = sequenceResponse(db.sequences[latestOf(ids)])]
    /\ UNCHANGED db
    /\ ServiceFrame

\* findExistingSequence: prisma.messageSequence.findFirst with the current
\* prompt version, then the cache-hit return of generateSequenceService.
\* The second lookup, for a stale sequence, only logs.
FindSequence(r) ==
    /\ requests[r].pc = "findSequence"
    /\ LET ids == matchingSequenceIds(db, ProspectUrl, requests[r].tovId,
                                      companyContext, sequenceLength)
       IN  requests' =
            IF ids = {} THEN [requests EXCEPT ![r].pc = "enrich"]
            ELSE [requests EXCEPT
                    ![r].pc = "done",
                    ![r].cached = TRUE,
                    ![r].response = sequenceResponse(db.sequences[latestOf(ids)])]
    /\ UNCHANGED db
    /\ ServiceFrame

\* await enrichmentProvider.enrich(prospect_url)
Enrich(r) ==
    /\ requests[r].pc = "enrich"
    /\ requests' = [requests EXCEPT ![r].pc = "generate",
                                     ![r].enrichCalls = @ + 1]
    /\ UNCHANGED db
    /\ ServiceFrame

StartGenerationWithPrePass(r) ==
    /\ requests[r].pc = "generate"
    /\ requests' =
        IF ~openaiClient
        THEN [requests EXCEPT
                ![r].pc = "failed",
                ![r].strategyCalls = @ + 1,
                ![r].logged = "AI generation attempted without a configured OpenAI client",
                ![r].error = "AI_GENERATION_FAILED"]
        ELSE [requests EXCEPT ![r].pc = "calling",
                              ![r].strategyCalls = @ + 1,
                              ![r].modelCalls = @ + 2]
    /\ UNCHANGED db
    /\ ServiceFrame

\* computeMessageStrategy, translateTovToDescription, and
\* generateSequenceWithAI up to the await of the model call
StartGeneration(r) ==
    /\ requests[r].pc = "generate"
    /\ requests' =
        IF ~openaiClient
        THEN [requests EXCEPT
                ![r].pc = "failed",
                ![r].strategyCalls = @ + 1,
                ![r].logged = "AI generation attempted without a configured OpenAI client",
                ![r].error = "AI_GENERATION_FAILED"]
        ELSE [requests EXCEPT ![r].pc = "calling",
                              ![r].strategyCalls = @ + 1,
                              ![r].modelCalls = @ + 1]
    /\ UNCHANGED db
    /\ ServiceFrame

ModelRespondsUnwrapped(r) ==
    /\ requests[r].pc = "calling"
    /\ \E c \in ServiceContents(sequenceLength) :
        LET outcome == GenerationOutcomes[prospectData.roleCategory][sequenceLength][c]
        IN  requests' =
                IF outcome.threw # ""
                THEN [requests EXCEPT
                        ![r].pc = "failed",
                        ![r].logged = outcome.threw,
                        ![r].error = IF c.form = "text" THEN "INTERNAL_ERROR"
                                     ELSE "AI_GENERATION_FAILED"]
                ELSE [requests EXCEPT ![r].pc = "persist",
                                      ![r].aiResult = outcome.result]
    /\ UNCHANGED db
    /\ ServiceFrame

\* the model call resolves; generateSequenceWithAI runs to its return or throw
ModelResponds(r) ==
    /\ requests[r].pc = "calling"
    /\ \E c \in ServiceContents(sequenceLength) :
        LET outcome == GenerationOutcomes[prospectData.roleCategory][sequenceLength][c]
        IN  requests' =
                IF outcome.threw # ""
                THEN [requests EXCEPT ![r].pc = "failed",
                                      ![r].logged = outcome.threw,
                                      ![r].error = "AI_GENERATION_FAILED"]
                ELSE [requests EXCEPT ![r].pc = "persist",
                                      ![r].aiResult = outcome.result]
    /\ UNCHANGED db
    /\ ServiceFrame

\* the model call rejects or is cancelled; the catch block wraps the error
ModelRejects(r) ==
    /\ requests[r].pc = "calling"
    /\ requests' = [requests EXCEPT ![r].pc = "failed",
                                     ![r].logged = "AI generation error: rejected",
                                     ![r].error = "AI_GENERATION_FAILED"]
    /\ UNCHANGED db
    /\ ServiceFrame

\* prisma.$transaction: prospect.upsert, tovConfig.findFirst or create,
\* messageSequence.create, aIGeneration.create; then the return
Persist(r) ==
    /\ requests[r].pc = "persist"
    /\ LET ids == matchingTovIds(db, requests[r].tov)
           tovConfigs == IF ids = {} THEN Append(db.tovConfigs, requests[r].tov)
                         ELSE db.tovConfigs
           tovId == IF ids = {} THEN Len(tovConfigs) ELSE firstOf(ids)
           row == sequenceRow(ProspectUrl, tovId, companyContext, sequenceLength,
                              requests[r].aiResult)
           sequenceId == Len(db.sequences) + 1
       IN  /\ db' = [ prospects |-> db.prospects \cup {ProspectUrl},
                      tovConfigs |-> tovConfigs,
                      sequences |-> Append(db.sequences, row),
                      generations |->
                        Append(db.generations,
                               [sequenceId |-> sequenceId,
                                promptVersion |-> PROMPT_VERSION]) ]
           /\ requests' = [requests EXCEPT
                            ![r].pc = "done",
                            ![r].tovId = tovId,
                            ![r].response = sequenceResponse(row),
                            ![r].wrote =
                                {"Prospect", "MessageSequence", "AIGeneration"}
                                \cup (IF ids = {} THEN {"TovConfig"} ELSE {})]
    /\ ServiceFrame

NextService ==
    \E r \in Requests :
        \/ FindProspect(r)
        \/ FindTov(r)
        \/ FindSequence(r)
        \/ Enrich(r)
        \/ StartGeneration(r)
        \/ ModelResponds(r)
        \/ ModelRejects(r)
        \/ Persist(r)

SpecService == InitService /\ [][NextService]_vars

----------------------------------------------------------------------------
(* Properties of generateSequenceService, checked under SpecService.       *)

\* C12: every failure of the generation step (no configured client, a model
\* call error or cancellation, empty content, unparseable text, a structural
\* violation, any other thrown error) reaches the caller as
\* AI_GENERATION_FAILED; no sequence is returned to it, and the request
\* writes no Prospect, TovConfig, MessageSequence or AIGeneration row.
\* the rows in the sequence and generation tables beyond those stored before
\* the requests began are one each per request that completed a generation.
GenerationFailureSurfaces ==
    /\ \A r \in Requests :
        (requests[r].logged # "" \/ requests[r].pc = "failed") =>
            /\ requests[r].pc = "failed"
            /\ requests[r].error = "AI_GENERATION_FAILED"
            /\ requests[r].response = NoResponse
            /\ requests[r].wrote = {}
    /\ LET generated == {r \in Requests : requests[r].pc = "done" /\ ~requests[r].cached}
       IN  /\ Len(db.sequences) - Cardinality(generated) \in {0, 1}
           /\ Len(db.generations) = Len(db.sequences)

\* one request failed on unparseable text and the other on a message count
\* mismatch, and the tables are still empty
BothRequestsFailed ==
    /\ requests["r1"].pc = "failed"
    /\ requests["r1"].logged = "AI generation error: invalid JSON"
    /\ requests["r2"].pc = "failed"
    /\ requests["r2"].logged = "AI generation error: AI generation failed: message count mismatch"
    /\ db = EmptyDb

\* the call of generateSequenceService has returned or thrown
Finished(r) == requests[r].pc \in {"done", "failed"}

\* C15 as stated: every request that is not served from the cache issues
\* exactly one model call: never more while it runs, and one when it ends.
ExactlyOneModelCall ==
    \A r \in Requests :
        /\ requests[r].modelCalls <= 1
        /\ (Finished(r) /\ ~requests[r].cached) => requests[r].modelCalls = 1

\* C15, amended: every request that is not served from the cache issues at
\* most one model call, with no pre-pass, fallback, repair or retry; it is
\* exactly one when the OpenAI client is configured, and none when it is not.
AtMostOneModelCall ==
    \A r \in Requests :
        /\ requests[r].modelCalls <= 1
        /\ (Finished(r) /\ ~requests[r].cached) =>
                requests[r].modelCalls = IF openaiClient THEN 1 ELSE 0

\* one request stored its sequence after one model call and the other failed
\* on a structural violation, also after one call and without a repair call
OneCallEach ==
    /\ requests["r1"].pc = "done"
    /\ ~requests["r1"].cached
    /\ requests["r1"].modelCalls = 1
    /\ requests["r2"].pc = "failed"
    /\ requests["r2"].logged = "AI generation error: AI generation failed: message count mismatch"
    /\ requests["r2"].modelCalls = 1

\* the stored sequences of the key of request r: its prospect, tone of
\* voice values, company context and sequence length
rowsOfKey(r) ==
    {i \in DOMAIN db.sequences :
        /\ db.sequences[i].prospect = ProspectUrl
        /\ db.tovConfigs[db.sequences[i].tovConfigId] = requests[r].tov
        /\ db.sequences[i].companyContext = companyContext
        /\ db.sequences[i].sequenceLength = sequenceLength}

\* sequence i has an AI generation record of the current prompt version
GeneratedByCurrentPrompt(i) ==
    \E g \in DOMAIN db.generations :
        /\ db.generations[g].sequenceId = i
        /\ db.generations[g].promptVersion = PROMPT_VERSION

Identical(r, q) == requests[r].tov = requests[q].tov

\* C17: duplicate AI calls are prevented for identical requests. Over any
\* interleaving of requests with the same key, two of them in flight
\* together included, at most one of them has a model call that did not
\* fail, and at most one sequence of the current prompt version is stored
\* for the key.
NoDuplicateGeneration ==
    \A r \in Requests :
        /\ Cardinality({q \in Requests :
                            /\ Identical(r, q)
                            /\ requests[q].modelCalls > 0
                            /\ requests[q].pc # "failed"}) <= 1
        /\ Cardinality({i \in rowsOfKey(r) : GeneratedByCurrentPrompt(i)}) <= 1

\* C18: the idempotency lookup is keyed on the current prompt version. A
\* stored sequence whose AI generation records all carry another
\* promptVersion is never returned as a cache hit; the request generates
\* again and stores a new sequence.
CacheKeyedOnPromptVersion ==
    \A r \in Requests :
        /\ requests[r].cached =>
                \E i \in rowsOfKey(r) :
                    /\ GeneratedByCurrentPrompt(i)
                    /\ requests[r].response = sequenceResponse(db.sequences[i])
        /\ (requests[r].pc = "done" /\ ~requests[r].cached) =>
                /\ {"MessageSequence", "AIGeneration"} \subseteq requests[r].wrote
                /\ \E i \in rowsOfKey(r) :
                        /\ GeneratedByCurrentPrompt(i)
                        /\ requests[r].response = sequenceResponse(db.sequences[i])

\* the stored sequence was generated under the superseded prompt: the first
\* request generated and stored a second one, which the other was served
StaleSequenceRegenerated ==
    /\ Len(db.sequences) = 2
    /\ ~GeneratedByCurrentPrompt(1)
    /\ rowsOfKey("r1") = {1, 2}
    /\ requests["r1"].pc = "done"
    /\ ~requests["r1"].cached
    /\ requests["r1"].response = sequenceResponse(db.sequences[2])
    /\ requests["r2"].cached
    /\ requests["r2"].response = sequenceResponse(db.sequences[2])
    /\ db.sequences[2].analysis # db.sequences[1].analysis

----------------------------------------------------------------------------
(* Properties of the confidence estimate, checked under SpecGenerate.      *)

\* prospect_insights of the sanitized analysis
insightsText == str(prop(prop(parsed, "analysis"), "prospect_insights"))

\* value_proposition of the sanitized analysis
valuePropText == str(prop(prop(parsed, "analysis"), "value_proposition"))

\* the prospect's skills, lower-cased
knownSkills == [k \in DOMAIN prospectData.skills |-> toLowerCase(prospectData.skills[k])]

\* the confidence the scoring rule gives the parsed output when a missed
\* headline keyword and a missed workflow grounding each cost missPenalty
confidenceByRule(missPenalty) ==
    LET headlineKw == extractSignalKeywords(prospectData.headline)
        skillPart == IF Len(knownSkills) = 0 THEN -100
                     ELSE IF hits(insightsText, knownSkills) THEN 200 ELSE -100
        headlinePart == IF hits(insightsText, headlineKw) THEN 150 ELSE -missPenalty
        workflowPart == IF hasNamedWorkflow(valuePropText) /\ hits(valuePropText, headlineKw)
                        THEN 150 ELSE -missPenalty
        genericPart == IF hits(insightsText, ANALYSIS_GENERIC_PHRASES) THEN -200 ELSE 0
        sum == 500 + skillPart + headlinePart + workflowPart + genericPart
    IN  IF sum < 400 THEN 400 ELSE IF sum > 950 THEN 950 ELSE sum

\* C21 as stated: the computed confidence starts at 0.5, adds 0.2 for a
\* referenced skill (-0.1 otherwise), +0.15 or -0.15 for the headline keyword,
\* +0.15 or -0.15 for a value proposition naming a workflow and a headline
\* keyword, -0.2 for generic phrasing, clamped to [0.4, 0.95]; the returned
\* confidence is the blend of the model's figure with that sum.
ConfidenceScoredSymmetrically ==
    pc = "returned" =>
        result.confidence =
            blendConfidence(aiConfidence(parsed.confidence), confidenceByRule(150))

\* C21, amended: as stated, except that a missed headline keyword and a
\* missed workflow grounding each subtract 0.1, not 0.15.
ConfidenceScoredByRule ==
    pc = "returned" =>
        result.confidence =
            blendConfidence(aiConfidence(parsed.confidence), confidenceByRule(100))

\* an output whose insights name neither a skill nor a headline keyword and
\* whose value proposition is grounded was scored 0.45, where a penalty of
\* 0.15 would give 0.4
MissedGroundingScored ==
    /\ pc = "returned"
    /\ ~hits(insightsText, knownSkills)
    /\ ~hits(insightsText, extractSignalKeywords(prospectData.headline))
    /\ hasNamedWorkflow(valuePropText)
    /\ confidenceByRule(100) = 450
    /\ confidenceByRule(150) = 400
    /\ parsed.confidence = Num(400)
    /\ result.confidence = 425

----------------------------------------------------------------------------
(* Properties of the strategy engine's tables, checked under SpecStrategy. *)

\* the roles in the order their first rule is declared in the signal table
RolesInRuleOrder == <<"Sales", "Security", "Data", "DevOps", "Product", "Engineering">>

\* the number of keywords of a rule that occur in the lower-cased context
occurring(ctx, rule) ==
    Cardinality({k \in DOMAIN rule.keywords : includes(ctx, rule.keywords[k])})

\* the total of a role over the rules from s on: a rule with n keywords
\* occurring counts its weight n times when perKeyword, else once when n > 0
RECURSIVE roleTotalFrom(_, _, _, _)
roleTotalFrom(ctx, role, s, perKeyword) ==
    IF s > Len(CONTEXT_ROLE_SIGNALS) THEN 0
    ELSE LET n == occurring(ctx, CONTEXT_ROLE_SIGNALS[s])
             times == IF perKeyword THEN n ELSE IF n > 0 THEN 1 ELSE 0
         IN  (IF CONTEXT_ROLE_SIGNALS[s].role = role
              THEN CONTEXT_ROLE_SIGNALS[s].weight * times ELSE 0)
             + roleTotalFrom(ctx, role, s + 1, perKeyword)

\* the role the reference rule selects: the first role in rule order whose
\* total is the highest, or the fallback when every total is zero
referenceRole(context, perKeyword) ==
    LET ctx == toLowerCase(context)
        total(role) == roleTotalFrom(ctx, role, 1, perKeyword)
        winners == {i \in DOMAIN RolesInRuleOrder :
                        \A j \in DOMAIN RolesInRuleOrder :
                            total(RolesInRuleOrder[i]) >= total(RolesInRuleOrder[j])}
        first == CHOOSE i \in winners : \A j \in winners : i <= j
    IN  IF total(RolesInRuleOrder[first]) = 0 THEN fallbackRole(ctx)
        ELSE RolesInRuleOrder[first]

\* C22 as stated: the inferred persona is the one of the reference rule in
\* which each rule adds its weight once when any of its keywords occurs; the
\* strictly highest total wins, ties go to the role first in rule order, and
\* the fallback checks apply when every total is zero.
PersonaByRuleTotals ==
    Computed => strategy.targetPersona = referenceRole(companyContext, FALSE)

\* C22, amended: the same rule, except that a rule adds its weight once for
\* each of its keywords that occurs in the lower-cased context.
PersonaByKeywordTotals ==
    Computed => strategy.targetPersona = referenceRole(companyContext, TRUE)

\* two keywords of one Security rule outweighed the stronger Sales rule
TwoKeywordsOutweighRule ==
    /\ Computed
    /\ companyContext = "sales teams compliance audit"
    /\ strategy.targetPersona = "Security"
    /\ referenceRole(companyContext, FALSE) = "Sales"

\* the position of workflow wf in the allowed list of the target persona
allowedPosition(wf) ==
    CHOOSE i \in DOMAIN ROLE_ALLOWED_WORKFLOWS[strategy.targetPersona] :
        ROLE_ALLOWED_WORKFLOWS[strategy.targetPersona][i] = wf

\* workflow wf is in the bridge list of an extracted capability tag
Addressed(wf) ==
    \E t \in DOMAIN strategy.capabilityTags :
        wf \in Range(CAPABILITY_WORKFLOW_BRIDGE[strategy.capabilityTags[t]])

\* C23: activeWorkflows is exactly the allowedWorkflows of the target persona
\* filtered to those in the union of the bridge lists of the extracted
\* capability tags, in the order of allowedWorkflows and without duplicates;
\* so every active workflow is addressed by an extracted capability.
ActiveIsFilteredAllowed ==
    Computed =>
        LET active == strategy.activeWorkflows
        IN  /\ strategy.allowedWorkflows = ROLE_ALLOWED_WORKFLOWS[strategy.targetPersona]
            /\ Range(active) = {wf \in Range(strategy.allowedWorkflows) : Addressed(wf)}
            /\ \A i, j \in DOMAIN active :
                    i < j => allowedPosition(active[i]) < allowedPosition(active[j])

\* two or more workflows were kept, in order, and one allowed workflow that
\* no extracted capability addresses was dropped
ProperFilterApplied ==
    /\ Computed
    /\ Len(strategy.activeWorkflows) >= 2
    /\ Len(strategy.activeWorkflows) < Len(strategy.allowedWorkflows)
    /\ \E wf \in Range(strategy.allowedWorkflows) : ~Addressed(wf)

----------------------------------------------------------------------------
(* Properties of the prompt and the pipeline, checked under SpecGenerate.  *)

\* the heading of the layer the policy table puts at position i of a plan of
\* length n
policyLayer(n, i) ==
    LET ladder == <<"OBSERVATION.", "WORKFLOW SPOTLIGHT.", "CAUSAL LINK.",
                    "IMPROVEMENT + CTA.", "SOCIAL PROOF.", "EXPANSION.">>
    IN  IF n = 1 THEN "OBSERVATION + CTA."
        ELSE IF n = 2 THEN <<ladder[1], ladder[4]>>[i]
        ELSE IF n = 3 THEN <<ladder[1], ladder[2], ladder[4]>>[i]
        ELSE IF i <= 6 THEN ladder[i]
        ELSE "Follow-up."

\* C24: the layer plan follows the policy table: [Observation+CTA] for 1,
\* [Observation, Improvement] for 2, [Observation, Spotlight, Improvement] for
\* 3, [Observation, Spotlight, CausalLink, Improvement] for 4, and for 5 or
\* more these four and SocialProof, then Expansion at position 6 and a generic
\* follow-up at each position from 7 on.
LayerPlanFollowsPolicy ==
    PlanBuilt =>
        /\ Len(stepProgression) = sequenceLength
        /\ \A i \in 1..sequenceLength :
                startsWith(stepProgression[i],
                           ToString(i) \o ": " \o policyLayer(sequenceLength, i) \o " ")

\* the plan for three messages skips the causal link
ThreeStepPlanBuilt ==
    /\ PlanBuilt
    /\ sequenceLength = 3
    /\ startsWith(stepProgression[2], "2: WORKFLOW SPOTLIGHT.")
    /\ startsWith(stepProgression[3], "3: IMPROVEMENT + CTA.")

\* the issue the hard-domain check pushes for the value proposition
VALUE_PROP_CLAIM_ISSUE == "value_proposition claims improvement to core technical system"

\* the issue the hard-domain check pushes for message i (counting from 1)
messageClaimIssue(i) ==
    "message " \o ToString(i) \o " claims improvement to core technical system"

\* the messages of the parsed output
parsedMessages == prop(parsed, "messages").v

\* the output makes a hard domain claim in value_proposition or in a message
HardClaimMade ==
    \/ hits(valuePropText, HARD_DOMAIN_CLAIMS)
    \/ \E i \in DOMAIN parsedMessages :
            hits(str(prop(parsedMessages[i], "message")), HARD_DOMAIN_CLAIMS)

\* the quality assessment reported a hard domain claim
HardClaimReported ==
    \E k \in DOMAIN issues :
        \/ issues[k] = VALUE_PROP_CLAIM_ISSUE
        \/ \E i \in DOMAIN parsedMessages : issues[k] = messageClaimIssue(i)

\* the prospect's enriched roleCategory names sales, revenue or business
\* development
SalesProspect ==
    \E w \in {"sales", "revenue", "business development"} :
        includes(toLowerCase(prospectData.roleCategory), w)

\* C25 as stated: the hard-domain-claim check depends on the target persona of
\* the strategy; with a target other than Sales a hard domain claim produces a
\* quality issue, with target Sales none is produced, whatever the prospect's
\* enriched roleCategory is.
HardClaimCheckedByTargetPersona ==
    pc = "assessed" =>
        /\ strategy.targetPersona # "Sales" /\ HardClaimMade => HardClaimReported
        /\ strategy.targetPersona = "Sales" => ~HardClaimReported

\* C25, amended: the hard-domain-claim check depends on the prospect's
\* enriched roleCategory; a hard domain claim produces a quality issue exactly
\* when that role is not a sales role, whatever the target persona is.
HardClaimCheckedByProspectRole ==
    pc = "assessed" =>
        (HardClaimReported <=> HardClaimMade /\ ~SalesProspect)

\* a DevOps prospect approached for a Sales target persona is told off for a
\* hard domain claim
HardClaimReportedForSalesTarget ==
    /\ pc = "assessed"
    /\ strategy.targetPersona = "Sales"
    /\ ~SalesProspect
    /\ HardClaimMade
    /\ HardClaimReported

\* the issue the all-question detection pushes
ALL_QUESTIONS_ISSUE ==
    "all messages end with questions - need progressive narrative layers"

\* message i of the parsed output ends with a question mark
EndsWithQuestion(i) ==
    endsWith(trim(toStringOrEmpty(prop(parsedMessages[i], "message"))), "?")

\* every message of the parsed output ends with a question mark
AllEndWithQuestion == \A i \in DOMAIN parsedMessages : EndsWithQuestion(i)

\* the quality assessment reported the all-question issue
AllQuestionsReported == \E k \in DOMAIN issues : issues[k] = ALL_QUESTIONS_ISSUE

\* C26 as stated: for every sequence length (including 1), if every message
\* ends with a question mark the quality assessment reports an issue, and if at
\* least one message does not, that issue is not reported.
AllQuestionsReportedAtEveryLength ==
    pc = "assessed" => (AllQuestionsReported <=> AllEndWithQuestion)

\* C26, amended: for every sequence length of at least 2, the issue is
\* reported exactly when every message ends with a question mark; for a
\* sequence of one message the issue is never reported.
AllQuestionsReportedFromTwo ==
    pc = "assessed" =>
        (AllQuestionsReported <=> Len(parsedMessages) >= 2 /\ AllEndWithQuestion)

\* a two-message sequence of questions has been reported
TwoQuestionsReported ==
    /\ pc = "assessed"
    /\ Len(parsedMessages) = 2
    /\ AllEndWithQuestion
    /\ AllQuestionsReported

\* a single question has been assessed and not reported
SingleQuestionNotReported ==
    /\ pc = "assessed"
    /\ Len(parsedMessages) = 1
    /\ AllEndWithQuestion
    /\ ~AllQuestionsReported

\* a sequence with a question and a statement has been assessed
MixedEndingsNotReported ==
    /\ pc = "assessed"
    /\ \E i, j \in DOMAIN parsedMessages : EndsWithQuestion(i) /\ ~EndsWithQuestion(j)
    /\ ~AllQuestionsReported

\* the stage that follows each stage of the try block once the model has
\* answered
nextStage(stage) ==
    CASE stage = "responded" -> "parsed"
      [] stage = "parsed" -> "validated"
      [] stage = "validated" -> "assessed"
      [] stage = "assessed" -> "sanitized"
      [] stage = "sanitized" -> "returned"
      [] OTHER -> "none"

\* the parsed output as structural validation left it, before sanitization
validatedOutput ==
    validateOutputStructure(parseAIJsonContent(content).value, sequenceLength).parsed

\* the texts sanitization may rewrite, of a parsed output
textsOf(p) ==
    <<prop(prop(p, "analysis"), "value_proposition"),
      prop(prop(p, "analysis"), "prospect_insights"),
      [i \in DOMAIN prop(p, "messages").v |-> prop(prop(p, "messages").v[i], "message")]>>

\* the stages run in the order parse, structural validation, quality
\* assessment, sanitization, confidence estimation, and a stage that fails
\* ends the call
StagesInOrder ==
    pc' # pc /\ pc \notin {"start", "prompted"} =>
        /\ pc' \in {nextStage(pc), "failed"}
        /\ pc' = "failed" => pc \in {"responded", "parsed"}
        /\ pc \in {"assessed", "sanitized"} => issues' = issues

\* the assessment reads the output before sanitization, the returned payload
\* carries it after sanitization
AssessedBeforeSanitized ==
    /\ pc = "assessed" => issues = validateContentQuality(validatedOutput, prospectData)
    /\ pc = "returned" =>
        LET sanitized == sanitizeOutput(validatedOutput)
        IN  /\ result.analysis = prop(sanitized, "analysis")
            /\ result.messages = prop(sanitized, "messages")

\* an output that failed structural validation is left as validation left it
FailedOutputNotSanitized ==
    pc = "failed" /\ parsed # Undefined => parsed = validatedOutput

Offered(wf) ==
    \E k \in DOMAIN frictionBlock : frictionBlock[k] = "- " \o WORKFLOW_DESCRIPTIONS[wf]

\* C28: the friction block rendered into the prompt lists only the active
\* (intersected) workflows: for every strategy, no workflow outside
\* activeWorkflows is offered to the model.
OnlyActiveWorkflowsOffered ==
    PlanBuilt =>
        \A wf \in DOMAIN WORKFLOW_DESCRIPTIONS :
            Offered(wf) => \E k \in DOMAIN strategy.activeWorkflows :
                                strategy.activeWorkflows[k] = wf

----------------------------------------------------------------------------
(* Properties of the alignment score, checked under SpecStrategy.          *)

\* the capability tags, in the order of their declaration
TagsInOrder ==
    << "qualification", "filtering", "enrichment", "personalization",
       "security-review-reduction", "pipeline-automation", "handoff-optimization",
       "triage-automation", "demo-qualification", "targeting-precision",
       "escalation-reduction" >>

\* the alignment score of a role for a set of capability tags
alignmentOf(role, tags) ==
    LET capabilityTags == SelectSeq(TagsInOrder, LAMBDA t : t \in tags)
        allowedWorkflows == ROLE_ALLOWED_WORKFLOWS[role]
    IN  computeAlignmentScore(intersectWorkflows(capabilityTags, allowedWorkflows),
                              allowedWorkflows).score

\* the scores each role reaches over all sets of capability tags
AlignmentScores ==
    [role \in RoleCategory |-> {alignmentOf(role, tags) : tags \in SUBSET CapabilityTag}]

\* C29: no strategy whose targetPersona is Product has alignmentScore 1.0:
\* roadmap-disruption is in Product's allowed list but in no bridge list, so
\* the score is at most 0.75; for each of the other five personas some set of
\* capability tags yields 1.0.
ProductNeverFullyAligned ==
    /\ Computed => strategy.alignmentScore \in AlignmentScores[strategy.targetPersona]
    /\ \A t \in CapabilityTag : "roadmap-disruption" \notin Range(CAPABILITY_WORKFLOW_BRIDGE[t])
    /\ "roadmap-disruption" \in Range(ROLE_ALLOWED_WORKFLOWS["Product"])
    /\ \A score \in AlignmentScores["Product"] : score <= 75
    /\ \A role \in RoleCategory \ {"Product"} : 100 \in AlignmentScores[role]

\* a Product strategy has been computed with the highest score Product reaches
ProductAtThreeQuarters ==
    /\ Computed
    /\ strategy.targetPersona = "Product"
    /\ strategy.activeWorkflows =
            <<"feature-request-noise", "pre-sales-feasibility", "qualification-cycles">>
    /\ strategy.alignmentScore = 75
    /\ \A score \in AlignmentScores["Product"] : score <= strategy.alignmentScore

----------------------------------------------------------------------------
(* Properties of the sanitizer's effect, checked under SpecGenerate.       *)

\* one of the banned patterns matches somewhere in the text
Banned(text) ==
    LET lowered == toLowerCase(text)
    IN  \E k \in DOMAIN TEXT_REPLACEMENTS : \E pos \in 1..Len(text) :
            matchEnds(text, lowered, TEXT_REPLACEMENTS[k].pattern, 1, pos) # {}

\* a text field is left alone when it is no string or holds no banned pattern
KeptWhenClean(before, after) ==
    (typeof(before) # "string" \/ ~Banned(before.v)) => after = before

\* output q is output p but for the three kinds of text the sanitizer rewrites
SameButTexts(p, q) ==
    LET pm == prop(p, "messages").v
        qm == prop(q, "messages").v
    IN  /\ [q EXCEPT !.analysis = p.analysis, !.messages = p.messages] = p
        /\ [q.analysis EXCEPT
                !.value_proposition = p.analysis.value_proposition,
                !.prospect_insights = p.analysis.prospect_insights] = p.analysis
        /\ Len(qm) = Len(pm)
        /\ \A i \in DOMAIN pm : [qm[i] EXCEPT !.message = pm[i].message] = pm[i]

\* the fields the claim names are the same in p and q
SameFrame(p, q) ==
    LET pm == prop(p, "messages").v
        qm == prop(q, "messages").v
    IN  /\ Len(qm) = Len(pm)
        /\ \A i \in DOMAIN pm :
                /\ prop(qm[i], "step") = prop(pm[i], "step")
                /\ prop(qm[i], "reasoning") = prop(pm[i], "reasoning")
        /\ prop(prop(q, "analysis"), "personalization_hooks")
                = prop(prop(p, "analysis"), "personalization_hooks")
        /\ prop(q, "confidence") = prop(p, "confidence")

\* the sanitization step of the pipeline
SanitizationStep ==
    pc = "assessed" /\ pc' = "sanitized" =>
        /\ SameButTexts(parsed, parsed')
        /\ SameFrame(parsed, parsed')
        /\ KeptWhenClean(prop(prop(parsed, "analysis"), "value_proposition"),
                         prop(prop(parsed', "analysis"), "value_proposition"))
        /\ KeptWhenClean(prop(prop(parsed, "analysis"), "prospect_insights"),
                         prop(prop(parsed', "analysis"), "prospect_insights"))
        /\ \A i \in DOMAIN prop(parsed, "messages").v :
                KeptWhenClean(prop(prop(parsed, "messages").v[i], "message"),
                              prop(prop(parsed', "messages").v[i], "message"))

\* C30: sanitization changes only analysis.value_proposition,
\* analysis.prospect_insights and messages[i].message: the number and order of
\* the messages, every step and reasoning, personalization_hooks and the
\* model's confidence are unchanged, and a text that contains none of the
\* banned patterns is returned unchanged.
SanitizationChangesOnlyTexts == [][SanitizationStep]_vars

\* an output has been sanitized in which one message was rewritten and
\* another, free of banned patterns, was kept
OneMessageRewrittenOneKept ==
    /\ pc = "sanitized"
    /\ Len(parsedMessages) >= 2
    /\ LET before == prop(validatedOutput, "messages").v
       IN  /\ Banned(before[1].message.v)
           /\ parsedMessages[1].message # before[1].message
           /\ ~Banned(before[2].message.v)
           /\ parsedMessages[2] = before[2]

====
